---- MODULE Spec2Model ----
(***************************************************************************)
(* Edge durability and delivery pipeline of P1-Edge-VPS: the SQLite spool  *)
(* (edge/src/spool.py) and the batch uploader (edge/src/uploader.py).      *)
(*                                                                         *)
(* Granularity.  Spool.enqueue, Spool.peek and Spool.ack are one SQLite    *)
(* statement plus commit each and are modelled as one step.  upload_batch  *)
(* is two steps: the peek that starts it (and that ends it when the spool  *)
(* is empty), and the arrival of the transport outcome, which runs the     *)
(* rest of the method (ack + reset, or the except branch) to its return.   *)
(* The producer may enqueue between the two.                               *)
(*                                                                         *)
(* Around them: Uploader.__init__ (the check of the URL), _upload_loop of  *)
(* edge/src/main.py (the wait it chooses after each upload_batch), close   *)
(* and reopen of the spool file, and a crash and restart of the process.   *)
(* `durable` is what commit() has written to the file; `rows` and `seq`    *)
(* are what the open connection sees.                                      *)
(***************************************************************************)
EXTENDS Integers, Sequences, FiniteSets, TLC

\* ------------------------------------------------------------------ bounds
\* Number of enqueues in one behaviour.
MaxEnq == 3
\* Longest failure streak explored (the cap of 300 is reached at 9).
MaxAttempt == 10
\* Number of process crashes in one behaviour.
MaxCrash == 1
\* Longest failure streak in the behaviours with crashes.
MaxStreak == 2
\* Iterations each loop of the daemon begins.
MaxIter == 2

\* ------------------------------------------------------- program constants
DefaultBatchSize == 30
DefaultMaxBackoff == 300

\* Construction-time inputs of Uploader (batch_size, max_backoff).
BatchSizes == {1, 2, DefaultBatchSize}
MaxBackoffs == {10, DefaultMaxBackoff}

NULL == "None"

\* Normalized samples handed to Spool.enqueue: an export reading without the
\* optional energy fields and an import reading with them.
Sample(p, ei, ee) ==
    [device_id |-> "hw-p1-001", ts |-> "2026-02-13T10:00:00+00:00",
     power_w |-> p, import_power_w |-> IF p > 0 THEN p ELSE 0,
     energy_import_kwh |-> ei, energy_export_kwh |-> ee]

Samples == {Sample(-200, NULL, NULL), Sample(1500, "123.456", "78.9")}

\* Values of datetime('now') at insertion.
Clock == {"2026-02-13 10:00:00"}

\* The device_ids that bearer tokens of the server stand for.
AuthDevices == {"hw-p1-001", "hw-p1-002"}

\* Outcomes of self._client.post(...) followed by raise_for_status().
TransportOutcomes == {"2xx", "3xx", "4xx", "5xx", "connect_error", "timeout"}

\* URLs as sequences of characters.
HttpsPrefix == <<"h", "t", "t", "p", "s", ":", "/", "/">>
SecureUrls ==
    {HttpsPrefix \o <<"v">>, HttpsPrefix \o <<"v", "/">>, HttpsPrefix}
InsecureUrls ==
    {<<"h", "t", "t", "p", ":", "/", "/", "v">>,
     <<"H", "T", "T", "P", "S", ":", "/", "/", "v">>,
     <<"h", "t", "t", "p", "s", ":", "/", "v">>,
     <<"f", "t", "p", ":", "/", "/", "v">>,
     <<>>}
Urls == SecureUrls \cup InsecureUrls
\* The endpoint of the deployed daemon.
DeployedUrl == HttpsPrefix \o <<"v">>
IngestPath == <<"/", "v", "1", "/", "i", "n", "g", "e", "s", "t">>

\* settings.upload_interval_s: any integer is accepted.
DefaultUploadInterval == 10
UploadIntervals == {0, 1, DefaultUploadInterval}

VARIABLES
    rows,         \* the spool table as the connection sees it: row records
    seq,          \* sqlite_sequence.seq of the AUTOINCREMENT key
    durable,      \* the committed content of the database file
    attempt,      \* Uploader._attempt
    batch_size,   \* Uploader._batch_size
    max_backoff,  \* Uploader._max_backoff
    upl_pc,       \* position of upload_batch: "idle" or "post"
    loop_pc,      \* position of the caller of upload_batch
    upl_rows,     \* local `rows` of the running upload_batch
    upl_rowids,   \* local `rowids`
    wire,         \* the request in flight: the `samples` list, <<>> if none
    result,       \* value returned by the last upload_batch
    peeked,       \* value returned by the last direct Spool.peek call
    peekArg,      \* its argument
    peekFresh,    \* no mutation of the spool since that call
    peekRepeat,   \* history: that call repeated the one before it
    insLog,       \* history: <<rowid, sample>> of every enqueue, in order
    confirmed,    \* history: rowids carried by a request answered 2xx
    acked,        \* history: rowids ever passed to Spool.ack
    ackedEnq,     \* history: rowids passed to Spool.ack after their enqueue
    ackedTwice,   \* history: a client acked stored rows twice in a row
    reopenPhase,  \* history: close and reopen relative to ack and enqueue
    postedTo,     \* history: URLs a request was posted to
    failsSince,   \* history: failed deliveries since the last delivered
                  \* and acked batch
    any2xx,       \* history: some request was answered 2xx
    lastCycle,    \* history: kind of the last upload_batch cycle
    enqDuring,    \* history: rowids enqueued while that cycle was posting
    returned,     \* history: <<kind, value>> pairs upload_batch returned
    ctor,         \* Uploader.__init__: "pending", "built" or "ValueError"
    client,       \* an httpx.Client exists
    given_url,    \* the ingest_url argument of Uploader.__init__
    ingest_url,   \* Uploader._ingest_url
    upload_interval_s,  \* settings.upload_interval_s
    delay,        \* local `delay` of _upload_loop, NULL before the first
    crashes,      \* history: number of process crashes
    crashedBatch, \* history: the batch a crash interrupted, <<>> if none
    crashKind,    \* history: where in upload_batch that crash fell
    shutdown_event,  \* main.shutdown_event is set
    poll_pc,      \* position of _poll_loop
    poll_sample,  \* <<local `sample` of _poll_loop>>, <<>> outside the body
    main_pc,      \* position of main() after it started the threads
    fl_pc,        \* position of the upload_batch that _flush_uploads runs
    fl_rows,      \* local `rows` of that upload_batch
    fl_rowids,    \* local `rowids` of that upload_batch
    closed,       \* Spool.close() has run
    last_upload_ok,  \* health._last_upload_ok: NULL, "True" or "False"
    health_file,  \* <<what the health file says>>, <<>> if never written
    store,        \* the p1_samples table of the server, in insertion order
    srv_reply,    \* <<answer of the ingest route to the request in flight>>
    cache,        \* Redis: for each device <<value of realtime:{device}>>
    rt_pc,        \* position of the get_realtime request being served
    rt_row,       \* <<the sample that request holds>>, <<>> if none
    rt_floor,     \* history: value of `invalidated` when that request began
    ing_pending,  \* newest instant of a batch committed by an ingest whose
                  \* cache invalidation has not run yet, 0 if none
    invalidated,  \* history: newest instant committed by the ingests that
                  \* have completed their cache invalidation
    pollIters,    \* history: iterations _poll_loop began
    upIters,      \* history: iterations _upload_loop began
    mainLog,      \* history: the steps of main() after the signal, in order
    flushResult,  \* history: how the upload_batch of the flush ended
    taskCalls,    \* history: <<thread, method, outcome>> of spool calls
    readings,     \* history: samples _poll_loop obtained from the meter
    wakes         \* history: the loops whose wait the event has ended

spoolVars == <<rows, seq, durable>>
uplVars   == <<attempt, batch_size, max_backoff, upl_pc, upl_rows, upl_rowids,
               wire, result, loop_pc>>
peekVars  == <<peeked, peekArg, peekFresh, peekRepeat>>
histVars  == <<insLog, confirmed, acked, failsSince, any2xx, lastCycle,
               enqDuring, returned, ackedEnq, ackedTwice, reopenPhase,
               postedTo>>
ctorVars  == <<ctor, client, given_url, ingest_url>>
crashVars == <<crashes, crashedBatch, crashKind>>
\* What the spool and upload_batch never touch.
taskVars  == <<shutdown_event, poll_pc, poll_sample, main_pc, fl_pc, fl_rows, fl_rowids,
               closed>>
healthVars == <<last_upload_ok, health_file>>
rtVars    == <<rt_pc, rt_row, rt_floor, ing_pending, invalidated>>
srvVars   == <<store, srv_reply, cache, rtVars>>
taskHist  == <<pollIters, upIters, mainLog, flushResult, taskCalls, readings,
               wakes>>
daemonVars == <<taskVars, healthVars, srvVars, taskHist>>
outerVars == <<ctorVars, upload_interval_s, delay, crashVars, daemonVars>>
vars      == <<spoolVars, uplVars, peekVars, histVars, outerVars>>

\* ------------------------------------------------------------------ helpers
Range(s) == {s[i] : i \in 1..Len(s)}
Min(a, b) == IF a < b THEN a ELSE b
RowIds(t) == {r.rowid : r \in t}

\* ------------------------------------------------------------------- Spool
\* One row of the table for `sample`, keyed `id`, inserted at `now`.
MakeRow(id, sample, now) ==
    [rowid |-> id, device_id |-> sample.device_id, ts |-> sample.ts,
     power_w |-> sample.power_w, import_power_w |-> sample.import_power_w,
     energy_import_kwh |-> sample.energy_import_kwh,
     energy_export_kwh |-> sample.energy_export_kwh, created_at |-> now]

\* Mutant: INTEGER PRIMARY KEY without AUTOINCREMENT: one more than the
\* largest rowid now in the table.
NextRowid_NoAutoincrement(t, s) ==
    LET used == RowIds(t) \cup {0}
    IN  1 + (CHOOSE m \in used : \A x \in used : x <= m)

\* AUTOINCREMENT: one more than the largest rowid ever used.
NextRowid(t, s) ==
    LET used == RowIds(t) \cup {s}
    IN  1 + (CHOOSE m \in used : \A x \in used : x <= m)

\* Mutant: ORDER BY rowid DESC.
RECURSIVE OrderByRowid_Desc(_)
OrderByRowid_Desc(t) ==
    IF t = {} THEN <<>>
    ELSE LET m == CHOOSE r \in t : \A q \in t : r.rowid >= q.rowid
         IN  <<m>> \o OrderByRowid_Desc(t \ {m})

\* ORDER BY rowid ASC.
RECURSIVE OrderByRowid(_)
OrderByRowid(t) ==
    IF t = {} THEN <<>>
    ELSE LET m == CHOOSE r \in t : \A q \in t : r.rowid <= q.rowid
         IN  <<m>> \o OrderByRowid(t \ {m})

\* Mutant: the query without its LIMIT.
Limit_NoLimit(s, n) == s

\* LIMIT :limit (for a limit >= 0).
Limit(s, n) == SubSeq(s, 1, Min(n, Len(s)))

\* Spool.peek(n) on table t.
Peek(t, n) == IF n < 1 THEN <<>> ELSE Limit(OrderByRowid(t), n)

\* Mutant: DELETE without its WHERE clause.
Ack_DeleteAll(t, rowids) == IF rowids = <<>> THEN t ELSE {}

\* Mutant: the oldest len(rowids) rows deleted, whatever their rowids.
Ack_ByCount(t, rowids) ==
    IF rowids = <<>> THEN t ELSE t \ Range(Limit(OrderByRowid(t), Len(rowids)))

\* Mutant: WHERE rowid <= max(rowids).
Ack_UpToMax(t, rowids) ==
    IF rowids = <<>> THEN t
    ELSE {r \in t : \E i \in 1..Len(rowids) : r.rowid > rowids[i]
                    /\ \A j \in 1..Len(rowids) : rowids[j] <= rowids[i]}

\* Mutant: an ack whose DELETE never reaches the table.
Ack_Nothing(t, rowids) == t

\* Spool.ack(rowids) on table t: the table afterwards.
Ack(t, rowids) ==
    IF rowids = <<>> THEN t ELSE {r \in t : r.rowid \notin Range(rowids)}

\* Mutant: SELECT MAX(rowid) for SELECT COUNT(*).
Count_MaxRowid(t) ==
    IF t = {} THEN 0 ELSE CHOOSE m \in RowIds(t) : \A x \in RowIds(t) : x <= m

\* Spool.count().
Count(t) == Cardinality(t)

\* Mutant: the commit() after the statement left out.
Committed_Never(t, s) == durable

\* self._conn.commit(): table t and sequence s become the file's content.
Committed(t, s) == [rows |-> t, seq |-> s]

\* Mutant: the table created afresh at every open.
OpenTable_Recreate(d) == [rows |-> {}, seq |-> d.seq]

\* sqlite3.connect(path) and CREATE TABLE IF NOT EXISTS on a file whose
\* committed content is d: what the new connection sees.
OpenTable(d) == d

\* ---------------------------------------------------------------- Uploader
\* Mutant: created_at left out of the keys to strip.
StripKeys_RowidOnly == {"rowid"}

\* _STRIP_KEYS
StripKeys == {"rowid", "created_at"}

\* {k: v for k, v in row.items() if k not in _STRIP_KEYS}
Strip(row) == [k \in (DOMAIN row) \ StripKeys |-> row[k]]

\* Mutant: 2 * attempt for 2 ** attempt.
CurrentBackoff_Times == Min(2 * attempt, max_backoff)

\* Uploader.current_backoff.
CurrentBackoff == Min(2 ^ attempt, max_backoff)

\* str.startswith
StartsWith(s, prefix) ==
    Len(s) >= Len(prefix) /\ SubSeq(s, 1, Len(prefix)) = prefix

\* Mutant: startswith("http").
AcceptsUrl_AnyHttp(url) == StartsWith(url, <<"h", "t", "t", "p">>)

\* ingest_url.startswith("https://")
AcceptsUrl(url) == StartsWith(url, HttpsPrefix)

\* ingest_url.rstrip("/")
RECURSIVE RStripSlash(_)
RStripSlash(s) ==
    IF s # <<>> /\ s[Len(s)] = "/" THEN RStripSlash(SubSeq(s, 1, Len(s) - 1))
    ELSE s

\* url = f"{self._ingest_url}/v1/ingest"
PostUrl == ingest_url \o IngestPath

\* The exception post() or raise_for_status() raises on outcome o.
ExceptionOf(o) ==
    CASE o = "2xx" -> "none"
      [] o \in {"3xx", "4xx", "5xx"} -> "HTTPStatusError"
      [] o = "connect_error" -> "ConnectError"
      [] o = "timeout" -> "TimeoutException"

\* The base class of each httpx exception class.
Superclass(e) ==
    CASE e = "ConnectError" -> "NetworkError"
      [] e = "NetworkError" -> "TransportError"
      [] e = "TimeoutException" -> "TransportError"
      [] e = "TransportError" -> "RequestError"
      [] e = "RequestError" -> "HTTPError"
      [] e = "HTTPStatusError" -> "HTTPError"
      [] e = "HTTPError" -> "Exception"
      [] OTHER -> "none"

RECURSIVE IsInstance(_, _)
IsInstance(e, classes) ==
    IF e = "none" THEN FALSE
    ELSE e \in classes \/ IsInstance(Superclass(e), classes)

\* Mutant: except httpx.HTTPStatusError alone.
Caught_StatusOnly(e) == IsInstance(e, {"HTTPStatusError"})

\* except (httpx.HTTPStatusError, httpx.TransportError)
Caught(e) == IsInstance(e, {"HTTPStatusError", "TransportError"})

\* Mutant: raise_for_status() raising for 4xx and 5xx only.
IsSuccess_RedirectOk(o) == o \in {"2xx", "3xx"}

\* response.raise_for_status() raises for every status that is not 2xx.
IsSuccess(o) == o = "2xx"

\* A mutation of the spool: the result of an earlier peek is no longer
\* that of "the last call with no mutation since".
ForgetPeek ==
    peeked' = <<>> /\ peekArg' = 0 /\ peekFresh' = FALSE /\ peekRepeat' = FALSE

\* Spool(path) on a new file, and the fields Uploader.__init__ sets after
\* its check of the URL.
InitFields ==
    /\ rows = {}
    /\ seq = 0
    /\ durable = [rows |-> {}, seq |-> 0]
    /\ ackedEnq = {}
    /\ ackedTwice = FALSE
    /\ reopenPhase = "none"
    /\ postedTo = {}
    /\ delay = NULL
    /\ crashes = 0
    /\ crashedBatch = <<>>
    /\ crashKind = "none"
    /\ attempt = 0
    /\ batch_size \in BatchSizes
    /\ max_backoff \in MaxBackoffs
    /\ upl_pc = "idle"
    /\ upl_rows = <<>>
    /\ upl_rowids = <<>>
    /\ wire = <<>>
    /\ result = "none"
    /\ peeked = <<>>
    /\ peekArg = 0
    /\ peekFresh = FALSE
    /\ peekRepeat = FALSE
    /\ insLog = <<>>
    /\ confirmed = {}
    /\ acked = {}
    /\ failsSince = 0
    /\ any2xx = FALSE
    /\ lastCycle = "none"
    /\ enqDuring = {}
    /\ returned = {}

\* The threads not yet in their loops, main() waiting for the signal, no
\* health file, an empty server table.
InitTasks ==
    /\ poll_pc = "top"
    /\ poll_sample = <<>>
    /\ main_pc = "running"
    /\ fl_pc = "idle"
    /\ fl_rows = <<>>
    /\ fl_rowids = <<>>
    /\ closed = FALSE
    /\ last_upload_ok = NULL
    /\ health_file = <<>>
    /\ store = <<>>
    /\ srv_reply = <<>>
    /\ cache = [dv \in AuthDevices |-> <<>>]
    /\ rt_pc = "idle"
    /\ rt_row = <<>>
    /\ rt_floor = 0
    /\ ing_pending = 0
    /\ invalidated = 0
    /\ pollIters = 0
    /\ upIters = 0
    /\ mainLog = <<>>
    /\ flushResult = "none"
    /\ taskCalls = {}
    /\ readings = {}
    /\ wakes = {}

\* No signal yet.
InitDaemon == InitTasks /\ shutdown_event = FALSE

\* The start of every specification whose upload_batch has one caller.
InitCore ==
    /\ InitFields
    /\ loop_pc = "idle"
    /\ InitDaemon

\* The daemon after main() built its spool and its uploader.
Init ==
    /\ InitCore
    /\ ctor = "built"
    /\ client = TRUE
    /\ given_url = DeployedUrl
    /\ ingest_url = RStripSlash(DeployedUrl)
    /\ upload_interval_s = DefaultUploadInterval

\* Spool.enqueue(sample), called by the producer.
Enqueue(sample, now) ==
    /\ seq < MaxEnq
    /\ LET id == NextRowid(rows, seq)
       IN  /\ rows' = rows \cup {MakeRow(id, sample, now)}
           /\ seq' = id
           /\ durable' = Committed(rows', seq')
           /\ insLog' = Append(insLog, <<id, sample>>)
           /\ enqDuring' = IF upl_pc = "post" THEN enqDuring \cup {id}
                           ELSE enqDuring
    /\ reopenPhase' = IF reopenPhase = "reopened_after_ack"
                      THEN "enqueued_after" ELSE reopenPhase
    /\ ForgetPeek
    /\ UNCHANGED <<uplVars, outerVars>>
    /\ UNCHANGED <<confirmed, acked, failsSince, any2xx, lastCycle, returned,
                   ackedEnq, ackedTwice, postedTo>>

\* Mutant: the rowids of every pending row instead of the peeked batch.
RowidsOf_AllPending(rws) ==
    LET all == OrderByRowid(rows)
    IN  [i \in 1..Len(all) |-> all[i].rowid]

\* rowids = [r["rowid"] for r in rows]
RowidsOf(rws) == [i \in 1..Len(rws) |-> rws[i].rowid]

\* Mutant: the except branch forgets to count the failure.
AttemptAfterFailure_Forgotten(a) == a

\* self._attempt += 1
AttemptAfterFailure(a) == a + 1

\* self._attempt = 0
AttemptAfterSuccess == 0

\* An exception that leaves upload_batch instead of a return value.
RaisedBy(o) == "raised"

\* The three return statements of upload_batch.
ReturnOnEmpty == "False"
ReturnOnFailure == "False"
ReturnOnSuccess == "True"

\* Mutant: an empty spool counted as a failed attempt.
UploadBatchPeek_EmptyCounts ==
    /\ upl_pc = "idle"
    /\ LET rws == Peek(rows, batch_size)
       IN  IF rws = <<>>
           THEN /\ result' = ReturnOnEmpty
                /\ attempt' = IF attempt < MaxAttempt THEN attempt + 1
                               ELSE attempt
                /\ lastCycle' = "noop"
                /\ returned' = returned \cup {<<"noop", result'>>}
                /\ loop_pc' = "eval"
                /\ UNCHANGED <<upl_pc, upl_rows, upl_rowids, wire, postedTo>>
           ELSE /\ upl_rows' = rws
                /\ upl_rowids' = RowidsOf(rws)
                /\ wire' = [i \in 1..Len(rws) |-> Strip(rws[i])]
                /\ postedTo' = postedTo \cup {PostUrl}
                /\ upl_pc' = "post"
                /\ loop_pc' = "call"
                /\ lastCycle' = "pending"
                /\ UNCHANGED <<attempt, result, returned>>
    /\ enqDuring' = {}
    /\ UNCHANGED <<spoolVars, batch_size, max_backoff, peekVars, outerVars>>
    /\ UNCHANGED <<insLog, confirmed, acked, failsSince, any2xx, ackedEnq,
                   ackedTwice, reopenPhase>>

\* Mutant: the batch taken out of the spool when it is read, before it is
\* sent.
UploadBatchPeek_Dequeue ==
    /\ upl_pc = "idle"
    /\ LET rws == Peek(rows, batch_size)
       IN  IF rws = <<>>
           THEN /\ result' = ReturnOnEmpty
                /\ lastCycle' = "noop"
                /\ returned' = returned \cup {<<"noop", result'>>}
                /\ loop_pc' = "eval"
                /\ UNCHANGED <<upl_pc, upl_rows, upl_rowids, wire, postedTo,
                               spoolVars, peekVars>>
           ELSE /\ upl_rows' = rws
                /\ upl_rowids' = RowidsOf(rws)
                /\ wire' = [i \in 1..Len(rws) |-> Strip(rws[i])]
                /\ postedTo' = postedTo \cup {PostUrl}
                /\ upl_pc' = "post"
                /\ loop_pc' = "call"
                /\ lastCycle' = "pending"
                /\ rows' = Ack(rows, RowidsOf(rws))
                /\ durable' = Committed(rows', seq)
                /\ ForgetPeek
                /\ UNCHANGED <<seq, result, returned>>
    /\ enqDuring' = {}
    /\ UNCHANGED <<attempt, batch_size, max_backoff, outerVars>>
    /\ UNCHANGED <<insLog, confirmed, acked, failsSince, any2xx, ackedEnq,
                   ackedTwice, reopenPhase>>

\* upload_batch, from its call to the request being sent, or to its return
\* when the spool is empty.
UploadBatchPeek ==
    /\ upl_pc = "idle"
    /\ LET rws == Peek(rows, batch_size)
       IN  IF rws = <<>>
           THEN /\ result' = ReturnOnEmpty
                /\ lastCycle' = "noop"
                /\ returned' = returned \cup {<<"noop", result'>>}
                /\ loop_pc' = "eval"
                /\ UNCHANGED <<upl_pc, upl_rows, upl_rowids, wire, postedTo>>
           ELSE /\ upl_rows' = rws
                /\ upl_rowids' = RowidsOf(rws)
                /\ wire' = [i \in 1..Len(rws) |-> Strip(rws[i])]
                /\ postedTo' = postedTo \cup {PostUrl}
                /\ upl_pc' = "post"
                /\ loop_pc' = "call"
                /\ lastCycle' = "pending"
                /\ UNCHANGED <<result, returned>>
    /\ enqDuring' = {}
    /\ UNCHANGED <<spoolVars, attempt, batch_size, max_backoff, peekVars,
                   outerVars>>
    /\ UNCHANGED <<insLog, confirmed, acked, failsSince, any2xx, ackedEnq,
                   ackedTwice, reopenPhase>>

\* Mutant: the ack issued before the response is examined.
UploadBatchResponse_AckFirst(o) ==
    /\ upl_pc = "post"
    /\ rows' = Ack(rows, upl_rowids)
    /\ durable' = Committed(rows', seq)
    /\ acked' = acked \cup Range(upl_rowids)
    /\ ackedEnq' = ackedEnq \cup Range(upl_rowids)
    /\ ForgetPeek
    /\ IF IsSuccess(o)
       THEN /\ attempt' = AttemptAfterSuccess
            /\ result' = ReturnOnSuccess
       ELSE /\ attempt < MaxAttempt
            /\ attempt' = AttemptAfterFailure(attempt)
            /\ result' = ReturnOnFailure
    /\ upl_pc' = "idle"
    /\ wire' = <<>>
    /\ confirmed' = IF o = "2xx" THEN confirmed \cup RowIds(Range(upl_rows))
                    ELSE confirmed
    /\ failsSince' = IF o = "2xx" THEN 0 ELSE failsSince + 1
    /\ any2xx' = (any2xx \/ o = "2xx")
    /\ lastCycle' = IF o = "2xx" THEN "success" ELSE "failure"
    /\ returned' = returned \cup {<<lastCycle', result'>>}
    /\ loop_pc' = "eval"
    /\ UNCHANGED <<seq, batch_size, max_backoff, upl_rows, upl_rowids>>
    /\ UNCHANGED <<insLog, enqDuring, ackedTwice, reopenPhase, postedTo,
                   outerVars>>

\* upload_batch, from the transport outcome `o` to its return.  The history
\* variables record the outcome itself, not the branch the code took.
UploadBatchResponse(o) ==
    /\ upl_pc = "post"
    /\ IF IsSuccess(o)
       THEN /\ rows' = Ack(rows, upl_rowids)
            /\ durable' = Committed(rows', seq)
            /\ acked' = acked \cup Range(upl_rowids)
            /\ ackedEnq' = ackedEnq \cup Range(upl_rowids)
            /\ attempt' = AttemptAfterSuccess
            /\ result' = ReturnOnSuccess
            /\ ForgetPeek
       ELSE IF Caught(ExceptionOf(o))
       THEN /\ attempt < MaxAttempt
            /\ attempt' = AttemptAfterFailure(attempt)
            /\ result' = ReturnOnFailure
            /\ UNCHANGED <<rows, durable, acked, ackedEnq, peekVars>>
       ELSE /\ result' = RaisedBy(o)
            /\ UNCHANGED <<attempt, rows, durable, acked, ackedEnq, peekVars>>
    /\ upl_pc' = "idle"
    /\ wire' = <<>>
    /\ confirmed' = IF o = "2xx" THEN confirmed \cup RowIds(Range(upl_rows))
                    ELSE confirmed
    /\ failsSince' = IF o = "2xx" THEN 0 ELSE failsSince + 1
    /\ any2xx' = (any2xx \/ o = "2xx")
    /\ lastCycle' = IF o = "2xx" THEN "success" ELSE "failure"
    /\ returned' = returned \cup {<<lastCycle', result'>>}
    /\ loop_pc' = "eval"
    /\ UNCHANGED <<seq, batch_size, max_backoff, upl_rows, upl_rowids>>
    /\ UNCHANGED <<insLog, enqDuring, ackedTwice, reopenPhase, postedTo,
                   outerVars>>

\* Where a storage error (sqlite3.Error) can leave upload_batch: the peek
\* that starts it, and the ack that follows a 2xx.  Neither call is inside
\* the try block, the failed statement changes nothing.
StorageFaults == {"peek", "ack"}

\* Mutant: the spool calls inside the try block, under `except Exception`:
\* a storage error counts as a failed delivery.
UploadBatchRaises_InsideTry(where) ==
    /\ IF where = "peek" THEN upl_pc = "idle" ELSE upl_pc = "post"
    /\ attempt < MaxAttempt
    /\ attempt' = AttemptAfterFailure(attempt)
    /\ result' = ReturnOnFailure
    /\ upl_pc' = "idle"
    /\ wire' = <<>>
    /\ loop_pc' = "eval"
    /\ lastCycle' = "error"
    /\ returned' = returned \cup {<<"error", result'>>}
    /\ confirmed' = IF where = "ack"
                    THEN confirmed \cup RowIds(Range(upl_rows)) ELSE confirmed
    /\ any2xx' = (any2xx \/ where = "ack")
    /\ enqDuring' = IF where = "peek" THEN {} ELSE enqDuring
    /\ UNCHANGED <<spoolVars, batch_size, max_backoff, upl_rows,
                   upl_rowids, peekVars, outerVars>>
    /\ UNCHANGED <<insLog, acked, ackedEnq, ackedTwice, reopenPhase, postedTo,
                   failsSince>>

\* upload_batch left by the exception of a spool call.
UploadBatchRaises(where) ==
    /\ IF where = "peek" THEN upl_pc = "idle" ELSE upl_pc = "post"
    /\ result' = "raised"
    /\ upl_pc' = "idle"
    /\ wire' = <<>>
    /\ loop_pc' = "eval"
    /\ lastCycle' = "error"
    /\ returned' = returned \cup {<<"error", result'>>}
    /\ confirmed' = IF where = "ack"
                    THEN confirmed \cup RowIds(Range(upl_rows)) ELSE confirmed
    /\ any2xx' = (any2xx \/ where = "ack")
    /\ enqDuring' = IF where = "peek" THEN {} ELSE enqDuring
    /\ UNCHANGED <<spoolVars, attempt, batch_size, max_backoff, upl_rows,
                   upl_rowids, peekVars, outerVars>>
    /\ UNCHANGED <<insLog, acked, ackedEnq, ackedTwice, reopenPhase, postedTo,
                   failsSince>>

\* Mutant: a peek that removes what it returns (a pop).
SpoolPeekCall_Pop(n) ==
    /\ peeked' = Peek(rows, n)
    /\ peekArg' = n
    /\ peekFresh' = TRUE
    /\ peekRepeat' = (peekFresh /\ peekArg = n)
    /\ rows' = rows \ Range(Peek(rows, n))
    /\ UNCHANGED <<seq, durable, uplVars, histVars, outerVars>>

\* A direct call of Spool.peek(n) by a client of the spool.
SpoolPeekCall(n) ==
    /\ peeked' = Peek(rows, n)
    /\ peekArg' = n
    /\ peekFresh' = TRUE
    /\ peekRepeat' = (peekFresh /\ peekArg = n)
    /\ UNCHANGED <<spoolVars, uplVars, histVars, outerVars>>

\* A direct call of Spool.ack(rowids) by a client of the spool.
SpoolAckCall(rowids) ==
    /\ rows' = Ack(rows, rowids)
    /\ durable' = IF rowids = <<>> THEN durable ELSE Committed(rows', seq)
    /\ acked' = acked \cup Range(rowids)
    /\ ackedEnq' = ackedEnq \cup (Range(rowids) \cap RowIds(rows))
    /\ ForgetPeek
    /\ UNCHANGED <<seq, uplVars, outerVars>>
    /\ UNCHANGED <<insLog, confirmed, failsSince, any2xx, lastCycle,
                   enqDuring, returned, ackedTwice, reopenPhase, postedTo>>

\* A client that calls Spool.ack(rowids) and then Spool.ack(rowids) again.
SpoolAckTwice(rowids) ==
    /\ rows' = Ack(Ack(rows, rowids), rowids)
    /\ durable' = IF rowids = <<>> THEN durable ELSE Committed(rows', seq)
    /\ acked' = acked \cup Range(rowids)
    /\ ackedEnq' = ackedEnq \cup (Range(rowids) \cap RowIds(rows))
    /\ ackedTwice' = (ackedTwice \/ Range(rowids) \cap RowIds(rows) # {})
    /\ ForgetPeek
    /\ UNCHANGED <<seq, uplVars, outerVars>>
    /\ UNCHANGED <<insLog, confirmed, failsSince, any2xx, lastCycle,
                   enqDuring, returned, reopenPhase, postedTo>>

\* Spool.close() followed by Spool(path) on the same file: the open
\* transaction, if any, is rolled back and the committed content is read.
SpoolReopen ==
    /\ rows' = OpenTable(durable).rows
    /\ seq' = OpenTable(durable).seq
    /\ reopenPhase' =
           IF reopenPhase = "enqueued_after" THEN reopenPhase
           ELSE IF seq > 0 /\ seq \notin RowIds(rows) THEN "reopened_after_ack"
           ELSE IF reopenPhase = "none" THEN "reopened"
           ELSE reopenPhase
    /\ UNCHANGED <<durable, uplVars, peekVars, outerVars>>
    /\ UNCHANGED <<insLog, confirmed, acked, failsSince, any2xx, lastCycle,
                   enqDuring, returned, ackedEnq, ackedTwice, postedTo>>

\* Where a crash can fall: outside upload_batch, inside it before the
\* response arrives (before sending or in flight), or inside it after a 2xx
\* response was received and before the ack committed.
CrashKinds == {"outside", "in_flight", "after_2xx"}

\* The process dies and is started again on the same spool file: main()
\* opens the file and builds a new Uploader.  Everything held in memory
\* (attempt counter, the running upload_batch, the request in flight) is
\* gone.
Crash(kind) ==
    /\ crashes < MaxCrash
    /\ IF kind = "outside" THEN upl_pc = "idle" ELSE upl_pc = "post"
    /\ rows' = OpenTable(durable).rows
    /\ seq' = OpenTable(durable).seq
    /\ attempt' = 0
    /\ upl_pc' = "idle"
    /\ loop_pc' = "idle"
    /\ upl_rows' = <<>>
    /\ upl_rowids' = <<>>
    /\ wire' = <<>>
    /\ result' = "none"
    /\ delay' = NULL
    /\ ForgetPeek
    /\ crashes' = crashes + 1
    /\ crashKind' = kind
    /\ crashedBatch' = IF kind = "outside" THEN <<>> ELSE upl_rows
    /\ confirmed' = IF kind = "after_2xx"
                    THEN confirmed \cup RowIds(Range(upl_rows)) ELSE confirmed
    /\ any2xx' = (any2xx \/ kind = "after_2xx")
    /\ failsSince' = 0
    /\ lastCycle' = "none"
    /\ enqDuring' = {}
    /\ UNCHANGED <<durable, batch_size, max_backoff, ctorVars,
                   upload_interval_s, daemonVars>>
    /\ UNCHANGED <<insLog, acked, returned, ackedEnq, ackedTwice, reopenPhase,
                   postedTo>>

Next ==
    \/ \E s \in Samples, now \in Clock : Enqueue(s, now)
    \/ UploadBatchPeek
    \/ \E o \in TransportOutcomes : UploadBatchResponse(o)

\* The program: one producer, one uploader.
Spec == Init /\ [][Next]_vars

\* Arguments of the direct spool calls.
PeekArgs == -1..(MaxEnq + 1)
RECURSIVE SetToSeq(_)
SetToSeq(S) ==
    IF S = {} THEN <<>>
    ELSE LET x == CHOOSE y \in S : \A z \in S : y <= z
         IN  <<x>> \o SetToSeq(S \ {x})
AckArgs == {SetToSeq(S) : S \in SUBSET (1..(MaxEnq + 1))}

\* The spool alone, its API driven by any client (as the spool's tests do).
SpoolInit == Init /\ batch_size = DefaultBatchSize /\ max_backoff = DefaultMaxBackoff

SpoolNext ==
    \/ \E s \in Samples, now \in Clock : Enqueue(s, now)
    \/ \E n \in PeekArgs : SpoolPeekCall(n)
    \/ \E ids \in AckArgs : SpoolAckCall(ids)

SpoolSpec == SpoolInit /\ [][SpoolNext]_vars

\* The spool as a durable store: enqueues and acks by any client, on a file
\* that is closed and reopened at any point between two calls.
StoreNext ==
    \/ \E s \in Samples, now \in Clock : Enqueue(s, now)
    \/ \E ids \in AckArgs : SpoolAckCall(ids)
    \/ \E ids \in AckArgs : SpoolAckTwice(ids)
    \/ SpoolReopen

StoreSpec == SpoolInit /\ [][StoreNext]_vars

\* What another consumer that drains the spool passes to Spool.ack: the
\* rowids of a peek of any size.
DrainArgs ==
    {[i \in 1..Len(Peek(rows, n)) |-> Peek(rows, n)[i].rowid] : n \in 1..MaxEnq}
        \ {<<>>}

\* The uploader on a spool that other clients may drain as well (as the
\* uploader's tests do with a mocked spool).
UnitNext ==
    \/ \E s \in Samples, now \in Clock : Enqueue(s, now)
    \/ UploadBatchPeek
    \/ \E o \in TransportOutcomes : UploadBatchResponse(o)
    \/ \E ids \in DrainArgs : SpoolAckCall(ids)

UnitSpec == Init /\ [][UnitNext]_vars

\* main() passes no max_backoff to Uploader; a batch size below and one
\* above the number of rows the spool ever holds.
CrashInit ==
    Init /\ max_backoff = DefaultMaxBackoff /\ batch_size \in {2, DefaultBatchSize}

\* The payload plays no part in what a crash keeps: one kind of reading.
CrashSamples == {Sample(1500, "123.456", "78.9")}

\* main() before it builds the Uploader: the spool exists, no uploader, no
\* HTTP client.
BuildInit ==
    /\ InitCore
    /\ max_backoff = DefaultMaxBackoff
    /\ ctor = "pending"
    /\ client = FALSE
    /\ given_url = <<>>
    /\ ingest_url = <<>>
    /\ upload_interval_s = DefaultUploadInterval

\* Uploader.__init__ called with ingest_url = url.
Construct(url) ==
    /\ ctor = "pending"
    /\ given_url' = url
    /\ IF ~AcceptsUrl(url)
       THEN /\ ctor' = "ValueError"
            /\ UNCHANGED <<ingest_url, client>>
       ELSE /\ ingest_url' = RStripSlash(url)
            /\ client' = TRUE
            /\ ctor' = "built"
    /\ UNCHANGED <<spoolVars, uplVars, peekVars, histVars, upload_interval_s,
                   delay, crashVars, daemonVars>>

\* Construction with any URL; the threads of the daemon run only once the
\* Uploader exists.
BuildNext ==
    \/ \E url \in Urls : Construct(url)
    \/ ctor = "built" /\ \E s \in Samples, now \in Clock : Enqueue(s, now)
    \/ ctor = "built" /\ UploadBatchPeek
    \/ ctor = "built" /\ \E o \in TransportOutcomes : UploadBatchResponse(o)

BuildSpec == BuildInit /\ [][BuildNext]_vars

\* Mutant: min() where the failure branch has max().
ChooseDelay_Min(success) ==
    IF success THEN upload_interval_s
    ELSE Min(upload_interval_s, CurrentBackoff)

\* Mutant: the failure branch waits for the backoff alone.
ChooseDelay_BackoffOnly(success) ==
    IF success THEN upload_interval_s ELSE CurrentBackoff

\* if success: delay = upload_interval_s
\* else: delay = max(upload_interval_s, uploader.current_backoff)
ChooseDelay(success) ==
    IF success THEN upload_interval_s
    ELSE IF upload_interval_s >= CurrentBackoff THEN upload_interval_s
    ELSE CurrentBackoff

\* _upload_loop calls uploader.upload_batch().
LoopCall == loop_pc = "idle" /\ UploadBatchPeek

\* A storage error leaves the upload_batch that _upload_loop called.
LoopRaises(where) ==
    /\ IF where = "peek" THEN loop_pc = "idle" ELSE loop_pc = "call"
    /\ UploadBatchRaises(where)

\* The transport outcome reaches the upload_batch that _upload_loop called.
LoopResponse(o) == loop_pc = "call" /\ UploadBatchResponse(o)

\* _upload_loop from the return of upload_batch to shutdown_event.wait: an
\* exception that left upload_batch counts as success = False.
LoopChooseDelay ==
    /\ loop_pc = "eval"
    /\ delay' = ChooseDelay(result = "True")
    /\ last_upload_ok' = IF result = "True" THEN "True" ELSE "False"
    /\ loop_pc' = "health"
    /\ UNCHANGED <<spoolVars, attempt, batch_size, max_backoff, upl_pc,
                   upl_rows, upl_rowids, wire, result>>
    /\ UNCHANGED <<peekVars, histVars, ctorVars, upload_interval_s, crashVars>>
    /\ UNCHANGED <<taskVars, health_file, srvVars, taskHist>>

\* How write_health_file can go: spool.count() may raise inside
\* get_health_status, writing the file may raise.
HealthOutcomes == {"ok", "count_raises", "write_raises"}

\* Of the dict get_health_status returns: whether spool.count() gave a
\* depth, and the result of the last upload.
HealthStatus(outcome) ==
    [spool_depth_known |-> outcome # "count_raises",
     last_upload_success |-> last_upload_ok]

\* Mutant: write_health_file without its try block.
LoopWriteHealth_Unguarded(outcome) ==
    /\ loop_pc = "health"
    /\ health_file' = IF outcome = "write_raises" THEN health_file
                      ELSE <<HealthStatus(outcome)>>
    /\ loop_pc' = IF outcome = "write_raises" THEN "dead" ELSE "wait"
    /\ UNCHANGED <<spoolVars, attempt, batch_size, max_backoff, upl_pc,
                   upl_rows, upl_rowids, wire, result>>
    /\ UNCHANGED <<peekVars, histVars, ctorVars, upload_interval_s, delay,
                   crashVars>>
    /\ UNCHANGED <<taskVars, last_upload_ok, srvVars, taskHist>>

\* write_health_file(spool, uploader) at the end of an iteration of
\* _upload_loop: both failures are logged and swallowed.
LoopWriteHealth(outcome) ==
    /\ loop_pc = "health"
    /\ health_file' = IF outcome = "write_raises" THEN health_file
                      ELSE <<HealthStatus(outcome)>>
    /\ loop_pc' = "wait"
    /\ UNCHANGED <<spoolVars, attempt, batch_size, max_backoff, upl_pc,
                   upl_rows, upl_rowids, wire, result>>
    /\ UNCHANGED <<peekVars, histVars, ctorVars, upload_interval_s, delay,
                   crashVars>>
    /\ UNCHANGED <<taskVars, last_upload_ok, srvVars, taskHist>>

\* shutdown_event.wait(timeout=delay) times out.
LoopWake ==
    /\ loop_pc = "wait"
    /\ loop_pc' = "idle"
    /\ UNCHANGED <<spoolVars, attempt, batch_size, max_backoff, upl_pc,
                   upl_rows, upl_rowids, wire, result>>
    /\ UNCHANGED <<peekVars, histVars, outerVars>>

\* main() with any accepted UPLOAD_INTERVAL_S; it passes no max_backoff.
LoopInit ==
    /\ InitCore
    /\ max_backoff = DefaultMaxBackoff
    /\ ctor = "built"
    /\ client = TRUE
    /\ given_url = DeployedUrl
    /\ ingest_url = RStripSlash(DeployedUrl)
    /\ upload_interval_s \in UploadIntervals

\* The daemon: the poll thread enqueues, the upload thread runs _upload_loop.
LoopNext ==
    \/ \E s \in Samples, now \in Clock : Enqueue(s, now)
    \/ LoopCall
    \/ \E o \in TransportOutcomes : LoopResponse(o)
    \/ LoopChooseDelay
    \/ \E outcome \in HealthOutcomes : LoopWriteHealth(outcome)
    \/ LoopWake

LoopSpec == LoopInit /\ [][LoopNext]_vars

\* _upload_loop on a spool whose calls can fail: main() with the default
\* batch size and any accepted interval.
CadenceInit == LoopInit /\ batch_size = DefaultBatchSize

CadenceNext ==
    \/ \E s \in CrashSamples, now \in Clock : Enqueue(s, now)
    \/ LoopCall
    \/ \E o \in TransportOutcomes : LoopResponse(o)
    \/ \E where \in StorageFaults : LoopRaises(where)
    \/ LoopChooseDelay
    \/ \E outcome \in HealthOutcomes : LoopWriteHealth(outcome)
    \/ LoopWake

CadenceSpec == CadenceInit /\ [][CadenceNext]_vars

\* _upload_loop with a producer and no signal, on a transport that fails at
\* most MaxStreak times in a row: main() with its default interval and a
\* batch size below or above what the spool holds.
DeliveryInit ==
    /\ LoopInit
    /\ batch_size \in {2, DefaultBatchSize}
    /\ upload_interval_s = DefaultUploadInterval

\* One step of _upload_loop: the call of upload_batch, the answer to its
\* request, the choice of the delay, the health file, the end of the wait.
DeliveryLoopStep ==
    \/ LoopCall
    \/ \E o \in TransportOutcomes :
          (o = "2xx" \/ attempt < MaxStreak) /\ LoopResponse(o)
    \/ LoopChooseDelay
    \/ \E outcome \in HealthOutcomes : LoopWriteHealth(outcome)
    \/ LoopWake

DeliveryNext ==
    \/ \E s \in CrashSamples, now \in Clock : Enqueue(s, now)
    \/ DeliveryLoopStep

DeliverySpec == DeliveryInit /\ [][DeliveryNext]_vars

\* The upload thread is scheduled, its requests end and its waits time out
\* (the delay is at most max_backoff): a step of _upload_loop that can be
\* taken is taken.
DeliveryFairSpec == DeliverySpec /\ WF_loop_pc(DeliveryLoopStep)

\* The program with crashes and restarts.
CrashNext ==
    \/ \E s \in CrashSamples, now \in Clock : Enqueue(s, now)
    \/ UploadBatchPeek
    \/ \E o \in TransportOutcomes :
           (o = "2xx" \/ attempt < MaxStreak) /\ UploadBatchResponse(o)
    \/ \E kind \in CrashKinds : Crash(kind)

CrashSpec == CrashInit /\ [][CrashNext]_vars

\* After a restart _upload_loop calls upload_batch again: the call is not
\* postponed for ever.
CrashFairSpec == CrashSpec /\ WF_vars(UploadBatchPeek)

\* ------------------------------------------------------------------ daemon
\* The three threads of the daemon: main() and the two it starts.
\* _signal_handler: shutdown_event.set().
Signal ==
    /\ ~shutdown_event
    /\ shutdown_event' = TRUE
    /\ UNCHANGED <<spoolVars, uplVars, peekVars, histVars, ctorVars,
                   upload_interval_s, delay, crashVars, healthVars, srvVars,
                   taskHist>>
    /\ UNCHANGED <<poll_pc, poll_sample, main_pc, fl_pc, fl_rows, fl_rowids,
                   closed>>

\* What the poll thread never touches.
pollFrame == <<uplVars, peekVars, ctorVars, upload_interval_s, delay,
               crashVars, healthVars, srvVars, shutdown_event, main_pc, fl_pc,
               fl_rows, fl_rowids, closed, upIters, mainLog, flushResult>>

\* normalize(raw, device_id, ts) with ts = datetime.now(tz=UTC): the sample
\* of the n-th iteration carries the n-th reading of the clock.
Reading(n) == [Sample(1500, "123.456", "78.9") EXCEPT !.ts = n]

\* `while not shutdown_event.is_set():` of _poll_loop.
PollTop ==
    /\ poll_pc = "top"
    /\ IF shutdown_event
       THEN poll_pc' = "exited" /\ UNCHANGED pollIters
       ELSE /\ pollIters < MaxIter
            /\ poll_pc' = "body"
            /\ pollIters' = pollIters + 1
    /\ UNCHANGED <<spoolVars, histVars, pollFrame, poll_sample, taskCalls,
                   readings, wakes>>

\* poll_measurement returned a dict, returned None (the three errors it
\* catches), or raised; normalize can raise as well.
PollResults == {"reading", "none", "raises"}

\* Mutant: no try block around the body of _poll_loop.
PollAfterException_Unguarded == "dead"

\* except Exception: record_p1_connected(False); logger.exception(...), then
\* the wait at the end of the iteration.
PollAfterException == "wait"

\* raw = poll_measurement(...) and sample = normalize(raw, device_id, ts).
PollMeasure(res) ==
    /\ poll_pc = "body"
    /\ IF res = "reading"
       THEN /\ poll_sample' = <<Reading(pollIters)>>
            /\ readings' = readings \cup {Reading(pollIters)}
            /\ poll_pc' = "enqueue"
       ELSE /\ poll_pc' = IF res = "none" THEN "wait" ELSE PollAfterException
            /\ UNCHANGED <<poll_sample, readings>>
    /\ UNCHANGED <<spoolVars, histVars, pollFrame, pollIters, taskCalls,
                   wakes>>

\* spool.enqueue(sample) by _poll_loop, and the spool.count() of its log
\* line.  A call that raises stores nothing; the except clause of the loop
\* logs it, and the sample is not kept for a later iteration.
PollEnqueue(ok, now) ==
    /\ poll_pc = "enqueue"
    /\ IF ok
       THEN LET id == NextRowid(rows, seq)
            IN  /\ rows' = rows \cup {MakeRow(id, poll_sample[1], now)}
                /\ seq' = id
                /\ durable' = Committed(rows', seq')
                /\ insLog' = Append(insLog, <<id, poll_sample[1]>>)
                /\ enqDuring' = IF upl_pc = "post" THEN enqDuring \cup {id}
                                ELSE enqDuring
                /\ poll_pc' = "wait"
       ELSE /\ poll_pc' = PollAfterException
            /\ UNCHANGED <<spoolVars, insLog, enqDuring>>
    /\ taskCalls' = taskCalls \cup {<<"poll", "enqueue", ok>>}
    /\ poll_sample' = <<>>
    /\ UNCHANGED <<confirmed, acked, failsSince, any2xx, lastCycle, returned,
                   ackedEnq, ackedTwice, reopenPhase, postedTo>>
    /\ UNCHANGED <<pollFrame, pollIters, readings, wakes>>

\* Why a wait ended: its timeout ran out, or the event was set.
WakeCauses == {"timeout", "event"}

\* Mutant: time.sleep(delay) for shutdown_event.wait(timeout=delay).
CanWake_Sleep(cause) == cause = "timeout"

\* threading.Event.wait(timeout): returns when the timeout has run out, and
\* at once when the event is set.
CanWake(cause) == cause = "timeout" \/ shutdown_event

\* shutdown_event.wait(timeout=settings.poll_interval_s) returns.
PollWake(cause) ==
    /\ poll_pc = "wait"
    /\ CanWake(cause)
    /\ poll_pc' = "top"
    /\ wakes' = IF cause = "event" THEN wakes \cup {"poll"} ELSE wakes
    /\ UNCHANGED <<spoolVars, histVars, pollFrame, poll_sample, pollIters,
                   taskCalls, readings>>

\* What the loop control of the upload thread never touches.
uploadFrame == <<spoolVars, attempt, batch_size, max_backoff, upl_pc,
                 upl_rows, upl_rowids, wire, result, peekVars, histVars,
                 ctorVars, upload_interval_s, delay, crashVars, healthVars,
                 srvVars, taskVars, pollIters, mainLog, flushResult,
                 taskCalls, readings>>

\* `while not shutdown_event.is_set():` of _upload_loop.
UploadTop ==
    /\ loop_pc = "top"
    /\ IF shutdown_event
       THEN loop_pc' = "exited" /\ UNCHANGED upIters
       ELSE /\ upIters < MaxIter
            /\ loop_pc' = "idle"
            /\ upIters' = upIters + 1
    /\ UNCHANGED <<uploadFrame, wakes>>

\* shutdown_event.wait(timeout=delay) returns.
UploadWake(cause) ==
    /\ loop_pc = "wait"
    /\ CanWake(cause)
    /\ loop_pc' = "top"
    /\ wakes' = IF cause = "event" THEN wakes \cup {"upload"} ELSE wakes
    /\ UNCHANGED <<uploadFrame, upIters>>

\* What main() and its flush never touch.
mainFrame == <<batch_size, max_backoff, upl_pc, upl_rows, upl_rowids, wire,
               result, loop_pc, ctorVars, upload_interval_s, delay, crashVars,
               healthVars, srvVars, shutdown_event, poll_pc, poll_sample,
               pollIters, upIters, taskCalls, readings, wakes>>

\* shutdown_event.wait() of main() returns.
MainWake ==
    /\ main_pc = "running"
    /\ shutdown_event
    /\ main_pc' = "join_poll"
    /\ UNCHANGED <<spoolVars, attempt, peekVars, histVars, mainFrame, fl_pc,
                   fl_rows, fl_rowids, closed, mainLog, flushResult>>

\* A join returns because the thread ended or because its 5 s ran out.
JoinResults == {"ended", "timeout"}

\* Mutant: spool.close() straight after the joins, no flush.
MainAfterJoins_NoFlush == "close"

\* _flush_uploads(uploader) follows the second join.
MainAfterJoins == "flush"

\* poll_thread.join(timeout=5), then upload_thread.join(timeout=5).
MainJoin(how) ==
    /\ main_pc \in {"join_poll", "join_upload"}
    /\ how = "ended" =>
          IF main_pc = "join_poll" THEN poll_pc \in {"exited", "dead"}
          ELSE loop_pc \in {"exited", "dead"}
    /\ main_pc' = IF main_pc = "join_poll" THEN "join_upload"
                  ELSE MainAfterJoins
    /\ mainLog' = Append(mainLog, <<main_pc, how>>)
    /\ UNCHANGED <<spoolVars, attempt, peekVars, histVars, mainFrame, fl_pc,
                   fl_rows, fl_rowids, closed, flushResult>>

\* Mutant: _flush_uploads without its try block.
MainAfterFlush_Unguarded(res) == IF res = "raised" THEN "dead" ELSE "close"

\* _flush_uploads logs what upload_batch returned or raised and returns;
\* spool.close() is next.
MainAfterFlush(res) == "close"

\* The upload_batch of _flush_uploads, from its call to the request being
\* sent, or to its return when the spool is empty.  It runs in the main
\* thread with locals of its own; _attempt and the spool are those of the
\* upload thread.
FlushPeek ==
    /\ main_pc = "flush"
    /\ fl_pc = "idle"
    /\ LET rws == Peek(rows, batch_size)
       IN  IF rws = <<>>
           THEN /\ flushResult' = ReturnOnEmpty
                /\ returned' = returned \cup {<<"noop", flushResult'>>}
                /\ main_pc' = MainAfterFlush(flushResult')
                /\ mainLog' = mainLog \o <<<<"flush", "call">>,
                                           <<"flush", flushResult'>>>>
                /\ fl_pc' = "done"
                /\ UNCHANGED <<fl_rows, fl_rowids, postedTo>>
           ELSE /\ fl_rows' = rws
                /\ fl_rowids' = RowidsOf(rws)
                /\ postedTo' = postedTo \cup {PostUrl}
                /\ fl_pc' = "post"
                /\ mainLog' = Append(mainLog, <<"flush", "call">>)
                /\ UNCHANGED <<flushResult, returned, main_pc>>
    /\ UNCHANGED <<spoolVars, attempt, peekVars, mainFrame, closed>>
    /\ UNCHANGED <<insLog, confirmed, acked, failsSince, any2xx, lastCycle,
                   enqDuring, ackedEnq, ackedTwice, reopenPhase>>

\* That upload_batch, from the transport outcome `o` to its return.
FlushResponse(o) ==
    /\ main_pc = "flush"
    /\ fl_pc = "post"
    /\ IF IsSuccess(o)
       THEN /\ rows' = Ack(rows, fl_rowids)
            /\ durable' = Committed(rows', seq)
            /\ acked' = acked \cup Range(fl_rowids)
            /\ ackedEnq' = ackedEnq \cup Range(fl_rowids)
            /\ attempt' = AttemptAfterSuccess
            /\ flushResult' = ReturnOnSuccess
            /\ ForgetPeek
       ELSE IF Caught(ExceptionOf(o))
       THEN /\ attempt < MaxAttempt
            /\ attempt' = AttemptAfterFailure(attempt)
            /\ flushResult' = ReturnOnFailure
            /\ UNCHANGED <<rows, durable, acked, ackedEnq, peekVars>>
       ELSE /\ flushResult' = RaisedBy(o)
            /\ UNCHANGED <<attempt, rows, durable, acked, ackedEnq, peekVars>>
    /\ fl_pc' = "done"
    /\ main_pc' = MainAfterFlush(flushResult')
    /\ mainLog' = Append(mainLog, <<"flush", flushResult'>>)
    /\ confirmed' = IF o = "2xx" THEN confirmed \cup RowIds(Range(fl_rows))
                    ELSE confirmed
    /\ failsSince' = IF o = "2xx" THEN 0 ELSE failsSince + 1
    /\ any2xx' = (any2xx \/ o = "2xx")
    /\ returned' = returned \cup
                     {<<IF o = "2xx" THEN "success" ELSE "failure",
                        flushResult'>>}
    /\ UNCHANGED <<seq, mainFrame, fl_rows, fl_rowids, closed>>
    /\ UNCHANGED <<insLog, lastCycle, enqDuring, ackedTwice, reopenPhase,
                   postedTo>>

\* That upload_batch left by the exception of a spool call.
FlushRaises(where) ==
    /\ main_pc = "flush"
    /\ IF where = "peek" THEN fl_pc = "idle" ELSE fl_pc = "post"
    /\ flushResult' = "raised"
    /\ fl_pc' = "done"
    /\ main_pc' = MainAfterFlush(flushResult')
    /\ mainLog' = IF where = "peek"
                  THEN mainLog \o <<<<"flush", "call">>, <<"flush", "raised">>>>
                  ELSE Append(mainLog, <<"flush", "raised">>)
    /\ returned' = returned \cup {<<"error", flushResult'>>}
    /\ confirmed' = IF where = "ack"
                    THEN confirmed \cup RowIds(Range(fl_rows)) ELSE confirmed
    /\ any2xx' = (any2xx \/ where = "ack")
    /\ UNCHANGED <<spoolVars, attempt, peekVars, mainFrame, fl_rows,
                   fl_rowids, closed>>
    /\ UNCHANGED <<insLog, acked, failsSince, lastCycle, enqDuring, ackedEnq,
                   ackedTwice, reopenPhase, postedTo>>

\* spool.close() at the end of main().
MainClose ==
    /\ main_pc = "close"
    /\ closed' = TRUE
    /\ main_pc' = "done"
    /\ mainLog' = Append(mainLog, <<"close", "done">>)
    /\ UNCHANGED <<spoolVars, attempt, peekVars, histVars, mainFrame, fl_pc,
                   fl_rows, fl_rowids, flushResult>>

\* main() at thread start: the spool and the uploader built with the
\* defaults, both loops before their first look at the event.  A signal can
\* have arrived already.
ShutdownInit ==
    /\ InitFields
    /\ InitTasks
    /\ loop_pc = "top"
    /\ shutdown_event \in BOOLEAN
    /\ batch_size = DefaultBatchSize
    /\ max_backoff = DefaultMaxBackoff
    /\ ctor = "built"
    /\ client = TRUE
    /\ given_url = DeployedUrl
    /\ ingest_url = RStripSlash(DeployedUrl)
    /\ upload_interval_s = DefaultUploadInterval

\* One step of the poll thread, a wait that only times out left aside.  A
\* call on a closed spool raises.
PollRun ==
    \/ PollTop
    \/ \E res \in PollResults : PollMeasure(res)
    \/ \E ok \in BOOLEAN, now \in Clock : (ok => ~closed) /\ PollEnqueue(ok, now)
    \/ PollWake("event")

\* One step of the upload thread, a wait that only times out left aside.
UploadRun ==
    \/ UploadTop
    \/ ~closed /\ LoopCall
    \/ \E o \in TransportOutcomes : (IsSuccess(o) => ~closed) /\ LoopResponse(o)
    \/ \E where \in StorageFaults : LoopRaises(where)
    \/ LoopChooseDelay
    \/ \E outcome \in HealthOutcomes :
          (outcome = "ok" => ~closed) /\ LoopWriteHealth(outcome)
    \/ UploadWake("event")

\* One step of main() after the signal.
MainRun ==
    \/ MainWake
    \/ \E how \in JoinResults : MainJoin(how)
    \/ FlushPeek
    \/ \E o \in TransportOutcomes : FlushResponse(o)
    \/ \E where \in StorageFaults : FlushRaises(where)
    \/ MainClose

\* With main() in the picture each loop begins one iteration less.
FewIterations ==
    /\ (poll_pc = "top" /\ ~shutdown_event) => pollIters < MaxIter - 1
    /\ (loop_pc = "top" /\ ~shutdown_event) => upIters < MaxIter - 1

ShutdownNext ==
    \/ Signal
    \/ FewIterations /\ PollRun
    \/ PollWake("timeout")
    \/ FewIterations /\ UploadRun
    \/ UploadWake("timeout")
    \/ MainRun

\* The two loops and the signal, main() left aside.
ThreadsNext ==
    \/ Signal
    \/ PollRun
    \/ PollWake("timeout")
    \/ UploadRun
    \/ UploadWake("timeout")

ThreadsSpec == ShutdownInit /\ [][ThreadsNext]_vars

\* Each thread that can take a step takes one (its HTTP requests end, the
\* scheduler runs it); no wait is required ever to time out, and nothing is
\* required of the arrival of the signal.
ThreadsFairSpec ==
    ThreadsSpec /\ WF_poll_pc(PollRun) /\ WF_loop_pc(UploadRun)

\* ------------------------------------------------------------------ server
\* The primary key of p1_samples.
KeyOf(s) == <<s.device_id, s.ts>>
KeysOf(batch) == {KeyOf(batch[i]) : i \in 1..Len(batch)}

\* Mutant: a plain INSERT into a table without the key.
IngestRows_NoConflictClause(table, batch) == table \o batch

\* INSERT ... VALUES (batch) ON CONFLICT (device_id, ts) DO NOTHING: a row
\* whose key is in the table, or earlier in the same statement, is skipped.
RECURSIVE IngestRows(_, _)
IngestRows(table, batch) ==
    IF batch = <<>> THEN table
    ELSE IngestRows(IF KeyOf(Head(batch)) \in KeysOf(table) THEN table
                    ELSE Append(table, Head(batch)),
                    Tail(batch))

\* await client.delete(f"realtime:{device_id}").
Invalidate(c, device_id) == [c EXCEPT ![device_id] = <<>>]

\* invalidate_device_cache is best effort: the key is deleted, or Redis
\* fails, the failure is logged and the key stays.
InvalidateOutcomes(c, device_id) == {Invalidate(c, device_id), c}

\* POST /v1/ingest for the request in flight, all of whose samples carry the
\* device_id of the token: ingest_samples commits the insert and returns
\* its rowcount, the cache key of the device is invalidated, the route
\* answers 200 with the rowcount.
ServerIngest ==
    /\ upl_pc = "post"
    /\ srv_reply = <<>>
    /\ store' = IngestRows(store, wire)
    /\ srv_reply' = <<[status |-> 200, inserted |-> Len(store') - Len(store)]>>
    /\ cache' \in InvalidateOutcomes(cache, wire[1].device_id)
    /\ UNCHANGED <<spoolVars, uplVars, peekVars, histVars, ctorVars,
                   upload_interval_s, delay, crashVars, taskVars, healthVars,
                   taskHist, rtVars>>

\* The exchange is over: the client has its outcome (or is gone) and the
\* answer of the server is dropped with the connection.
ExchangeDone ==
    /\ upl_pc = "idle"
    /\ srv_reply # <<>>
    /\ srv_reply' = <<>>
    /\ UNCHANGED <<spoolVars, uplVars, peekVars, histVars, ctorVars,
                   upload_interval_s, delay, crashVars, taskVars, healthVars,
                   taskHist, store, cache, rtVars>>

\* What the client can see of an exchange: a 2xx only when the route has
\* answered, a refused connection only when the request never arrived; an
\* answer can be lost on its way (timeout) or replaced by a proxy (other
\* statuses).
Delivers(o) ==
    /\ o = "2xx" => srv_reply # <<>>
    /\ o = "connect_error" => srv_reply = <<>>

\* Readings taken at two instants; the clock may repeat an instant.
ServerSamples == {Reading(1), Reading(2)}

\* The edge and the server: deliveries, lost answers, a crash with a
\* request in flight, an ack that fails after the 2xx.
ServerNext ==
    \/ \E s \in ServerSamples, now \in Clock : Enqueue(s, now)
    \/ srv_reply = <<>> /\ UploadBatchPeek
    \/ ServerIngest
    \/ \E o \in TransportOutcomes :
          /\ Delivers(o)
          /\ o = "2xx" \/ attempt < MaxStreak
          /\ UploadBatchResponse(o)
    \/ Delivers("2xx") /\ UploadBatchRaises("ack")
    \/ \E kind \in CrashKinds \ {"outside"} :
          (kind = "after_2xx" => Delivers("2xx")) /\ Crash(kind)
    \/ ExchangeDone

\* main() with its defaults.
ServerInit == CrashInit /\ batch_size = DefaultBatchSize

ServerSpec == ServerInit /\ [][ServerNext]_vars

\* Samples a client can put in a request: two instants, either device.
ApiSamples ==
    {[Reading(n) EXCEPT !.device_id = dv] : n \in {1, 2}, dv \in AuthDevices}

\* Request bodies of one or two samples.
ApiBatches ==
    {<<s>> : s \in ApiSamples} \cup {<<s, t>> : s, t \in ApiSamples}

\* Mutant: only the first sample is compared with the token's device_id.
Rejects_FirstOnly(batch, device_id) == batch[1].device_id # device_id

\* for sample in request.samples: if sample.device_id != device_id: raise
\* HTTPException(status_code=403).
Rejects(batch, device_id) ==
    \E i \in 1..Len(batch) : batch[i].device_id # device_id

\* A client posts `batch` to /v1/ingest.
ApiPost(batch) ==
    /\ wire = <<>>
    /\ srv_reply = <<>>
    /\ wire' = batch
    /\ UNCHANGED <<spoolVars, attempt, batch_size, max_backoff, upl_pc,
                   upl_rows, upl_rowids, result, loop_pc, peekVars, histVars,
                   outerVars>>

\* The ingest route for the request in flight, its token being that of
\* `device_id`: 403 before anything is inserted when a sample names another
\* device, else the committed insert and 200 with its rowcount.
ApiIngest(device_id) ==
    /\ upl_pc = "idle"
    /\ wire # <<>>
    /\ srv_reply = <<>>
    /\ IF Rejects(wire, device_id)
       THEN /\ srv_reply' = <<[status |-> 403]>>
            /\ UNCHANGED <<store, cache>>
       ELSE /\ store' = IngestRows(store, wire)
            /\ srv_reply' = <<[status |-> 200,
                               inserted |-> Len(store') - Len(store)]>>
            /\ cache' \in InvalidateOutcomes(cache, device_id)
    /\ UNCHANGED <<spoolVars, uplVars, peekVars, histVars, ctorVars,
                   upload_interval_s, delay, crashVars, taskVars, healthVars,
                   taskHist, rtVars>>

\* The client has the answer.
ApiDone ==
    /\ upl_pc = "idle"
    /\ srv_reply # <<>>
    /\ wire' = <<>>
    /\ srv_reply' = <<>>
    /\ UNCHANGED <<spoolVars, attempt, batch_size, max_backoff, upl_pc,
                   upl_rows, upl_rowids, result, loop_pc, peekVars, histVars,
                   ctorVars, upload_interval_s, delay, crashVars, taskVars,
                   healthVars, taskHist, store, cache, rtVars>>

\* The ingest route serving one request after another.
ApiNext ==
    \/ \E batch \in ApiBatches : ApiPost(batch)
    \/ \E device_id \in AuthDevices : ApiIngest(device_id)
    \/ ApiDone

ApiSpec == ServerInit /\ [][ApiNext]_vars

\* ---------------------------------------------------------------- realtime
\* The device whose realtime value is read.
RtDevice == "hw-p1-001"

\* Bodies of the ingest requests for that device: readings of one or two
\* instants.
RtBatches == {<<Reading(1)>>, <<Reading(2)>>, <<Reading(1), Reading(2)>>}

\* The newest instant in a batch.
Newest(batch) ==
    CHOOSE n \in {batch[i].ts : i \in 1..Len(batch)} :
        \A i \in 1..Len(batch) : batch[i].ts <= n

\* SELECT ... FROM p1_samples WHERE device_id = :device_id ORDER BY ts DESC
\* LIMIT 1, as fetchone() gives it: <<row>>, or <<>> for None.
Latest(table, device_id) ==
    LET own == {i \in 1..Len(table) : table[i].device_id = device_id}
    IN  IF own = {} THEN <<>>
        ELSE <<table[CHOOSE i \in own : \A j \in own : table[j].ts <= table[i].ts]>>

\* What the realtime actions never touch.
rtFrame == <<spoolVars, uplVars, peekVars, histVars, ctorVars,
             upload_interval_s, delay, crashVars, taskVars, healthVars,
             taskHist, srv_reply>>

\* The ingest route up to the commit of ingest_samples.
RtIngestCommit(batch) ==
    /\ ing_pending = 0
    /\ store' = IngestRows(store, batch)
    /\ ing_pending' = Newest(batch)
    /\ UNCHANGED <<rtFrame, cache, rt_pc, rt_row, rt_floor, invalidated>>

\* The ingest route from there to its answer: invalidate_device_cache, with
\* Redis in order.
RtIngestInvalidate ==
    /\ ing_pending # 0
    /\ cache' = Invalidate(cache, RtDevice)
    /\ invalidated' = IF ing_pending > invalidated THEN ing_pending
                      ELSE invalidated
    /\ ing_pending' = 0
    /\ UNCHANGED <<rtFrame, store, rt_pc, rt_row, rt_floor>>

\* get_realtime begins: cached = await _cache_get(device_id); a hit is the
\* answer.
RtCacheGet ==
    /\ rt_pc = "idle"
    /\ rt_floor' = invalidated
    /\ rt_row' = cache[RtDevice]
    /\ rt_pc' = IF cache[RtDevice] # <<>> THEN "done" ELSE "miss"
    /\ UNCHANGED <<rtFrame, store, cache, ing_pending, invalidated>>

\* After a miss: the query for the latest row; no row is a 404.
RtQuery ==
    /\ rt_pc = "miss"
    /\ rt_row' = Latest(store, RtDevice)
    /\ rt_pc' = IF rt_row' = <<>> THEN "idle" ELSE "fetched"
    /\ UNCHANGED <<rtFrame, store, cache, rt_floor, ing_pending, invalidated>>

\* await _cache_set(device_id, data), with Redis in order and the TTL not
\* yet run out.
RtCacheSet ==
    /\ rt_pc = "fetched"
    /\ cache' = [cache EXCEPT ![RtDevice] = rt_row]
    /\ rt_pc' = "done"
    /\ UNCHANGED <<rtFrame, store, rt_row, rt_floor, ing_pending, invalidated>>

\* return RealtimeResponse(...): the request is over.
RtReturn ==
    /\ rt_pc = "done"
    /\ rt_pc' = "idle"
    /\ rt_row' = <<>>
    /\ UNCHANGED <<rtFrame, store, cache, rt_floor, ing_pending, invalidated>>

\* Ingest requests and realtime reads of one device, served concurrently.
RealtimeNext ==
    \/ \E batch \in RtBatches : RtIngestCommit(batch)
    \/ RtIngestInvalidate
    \/ RtCacheGet
    \/ RtQuery
    \/ RtCacheSet
    \/ RtReturn

RealtimeSpec == ServerInit /\ [][RealtimeNext]_vars

\* The thread that ran Spool.__init__: main() builds the spool before it
\* starts the two threads.
SpoolOwner == "main"

\* sqlite3.connect(str(path)) with the default check_same_thread: the
\* connection serves only the thread that created it.  In any other thread
\* execute() and commit() raise sqlite3.ProgrammingError before a statement
\* runs.
Usable(thread) == thread = SpoolOwner

\* A call of enqueue, peek (n >= 1), ack (of some rowids) or count by
\* `thread` raises: foreign thread, or closed connection.
SpoolCallRaises(thread) == ~Usable(thread) \/ closed

\* main() as it wires the daemon, the storage medium in order: the one
\* Spool object is handed to both threads.  upload_batch of the upload
\* thread ends at its peek, so the spool stays empty and the flush of the
\* main thread never has a request to send.
DaemonNext ==
    \/ Signal
    \/ PollTop
    \/ \E res \in PollResults : PollMeasure(res)
    \/ \E now \in Clock : PollEnqueue(~SpoolCallRaises("poll"), now)
    \/ \E cause \in WakeCauses : PollWake(cause)
    \/ UploadTop
    \/ IF SpoolCallRaises("upload") THEN LoopRaises("peek") ELSE LoopCall
    \/ LoopChooseDelay
    \/ \E outcome \in HealthOutcomes :
          /\ outcome = "ok" => ~SpoolCallRaises("upload")
          /\ LoopWriteHealth(outcome)
    \/ \E cause \in WakeCauses : UploadWake(cause)
    \/ MainWake
    \/ \E how \in JoinResults : MainJoin(how)
    \/ IF SpoolCallRaises("main") THEN FlushRaises("peek") ELSE FlushPeek
    \/ MainClose

DaemonSpec == ShutdownInit /\ [][DaemonNext]_vars

\* The daemon from the start of its threads to the end of main().
ShutdownSpec == ShutdownInit /\ [][ShutdownNext]_vars


\* ------------------------------------------------------------------ claims
InsertedIds == {insLog[i][1] : i \in 1..Len(insLog)}
Kinds(rs) == {p[1] : p \in rs}

\* C1: no data loss.  In every reachable state of the program a sample that
\* was enqueued is absent from the spool exactly when a request that carried
\* it was answered 2xx; a sample still present is stored as it was enqueued;
\* every absent sample was passed to ack, and ack is only ever given ids of
\* confirmed samples.
C1_NoDataLoss ==
    /\ \A i \in 1..Len(insLog) :
          LET id == insLog[i][1]
          IN  /\ (id \notin RowIds(rows)) <=> (id \in confirmed)
              /\ (id \notin RowIds(rows)) => (id \in acked)
              /\ (id \in RowIds(rows)) =>
                     \E r \in rows : r.rowid = id /\ Strip(r) = insLog[i][2]
    /\ acked \subseteq confirmed
    /\ RowIds(rows) \subseteq InsertedIds

\* A state after a failed and a successful delivery in which one sample is
\* gone and another is still queued.
C1_Witness ==
    /\ {"failure", "success"} \subseteq Kinds(returned)
    /\ confirmed # {}
    /\ rows # {}
    /\ upl_pc = "idle"

\* C2: while the transport has never answered 2xx, count() equals the number
\* of enqueues, whatever the interleaving of enqueue and upload_batch.
C2_NoLossUnderFailingTransport ==
    ~any2xx => Count(rows) = Len(insLog)

\* Three samples enqueued, upload attempts around them all failed, and all
\* three are still counted.
C2_Witness ==
    /\ ~any2xx
    /\ failsSince >= 2
    /\ Len(insLog) >= 3
    /\ Count(rows) = Len(insLog)
    /\ upl_pc = "idle"

\* C3: on a 2xx response upload_batch passes to ack exactly the rowids of the
\* rows whose samples it sent and returns True; the rows deleted are exactly
\* those rows, so a row enqueued between the peek and the ack survives.
C3_AckExactlySent ==
    [][UploadBatchResponse("2xx") =>
          /\ Range(upl_rows) \subseteq rows
          /\ rows' = rows \ Range(upl_rows)
          /\ acked' = acked \cup RowIds(Range(upl_rows))
          /\ result' = "True"]_vars

\* A delivered batch is gone while a sample enqueued during its request is
\* still queued.
C3_Witness ==
    /\ lastCycle = "success"
    /\ result = "True"
    /\ enqDuring # {}
    /\ enqDuring \subseteq RowIds(rows)
    /\ RowIds(Range(upl_rows)) \cap RowIds(rows) = {}
\* C4: on a failed delivery (non-2xx, connection error, timeout) upload_batch
\* passes nothing to ack and returns False; neither its peek nor its failure
\* branch changes the spool, and the batch it sent is still the head of the
\* queue, in the same order, for the next attempt.
C4_FailureKeepsBatch ==
    [][/\ UploadBatchPeek => rows' = rows
       /\ \A o \in TransportOutcomes \ {"2xx"} :
             UploadBatchResponse(o) =>
                /\ rows' = rows
                /\ acked' = acked
                /\ result' = "False"
                /\ Len(upl_rows) >= 1
                /\ Peek(rows', Len(upl_rows)) = upl_rows]_vars

\* A batch of two failed and both rows are still queued.
C4_Witness ==
    /\ lastCycle = "failure"
    /\ result = "False"
    /\ upl_pc = "idle"
    /\ Len(upl_rows) = 2
    /\ Range(upl_rows) \subseteq rows
    /\ acked = {}

\* C5: consecutive_failures (_attempt) equals the number of failed deliveries
\* since the last 2xx delivery or since construction: 0 after a success, one
\* more after each failure, and touched by nothing else (an enqueue, an
\* empty-spool cycle, an ack or a read of current_backoff).
C5_BackoffBookkeeping == attempt = failsSince

\* A failure streak of two after an earlier success, with an empty-spool
\* cycle in the history.
C5_Witness ==
    /\ any2xx
    /\ failsSince = 2
    /\ "noop" \in Kinds(returned)
    /\ upl_pc = "idle"

\* The delays of the specification for max_backoff = 300.
SpecDelays == <<1, 2, 4, 8, 16, 32, 64, 128, 256>>
SpecDelay(k) == IF k < Len(SpecDelays) THEN SpecDelays[k + 1] ELSE 300
RECURSIVE Doubled(_)
Doubled(k) == IF k = 0 THEN 1 ELSE 2 * Doubled(k - 1)

\* C6: current_backoff is min(2^failures, max_backoff): with max_backoff =
\* 300 the delays after 0, 1, 2, ... failures are 1, 2, 4, ..., 256, 300,
\* 300, ...; it never exceeds max_backoff, and it is 1 after a success.
C6_BackoffSequence ==
    /\ CurrentBackoff = Min(Doubled(failsSince), max_backoff)
    /\ max_backoff = 300 => CurrentBackoff = SpecDelay(failsSince)
    /\ CurrentBackoff <= max_backoff
    /\ lastCycle = "success" => CurrentBackoff = 1

\* Ten failures in a row after an earlier success: the delay is held at the
\* cap of 300.
C6_Witness ==
    /\ max_backoff = 300
    /\ any2xx
    /\ failsSince = 10
    /\ CurrentBackoff = 300

\* C7: an upload_batch that finds the spool empty sends no request, passes
\* nothing to ack, and leaves _attempt, current_backoff and the spool as
\* they were, whatever the backoff state.
C7_EmptyQueueNoOp ==
    [][(UploadBatchPeek /\ Peek(rows, batch_size) = <<>>) =>
          /\ wire = <<>> /\ wire' = <<>>
          /\ upl_pc' = "idle"
          /\ acked' = acked
          /\ attempt' = attempt
          /\ CurrentBackoff' = CurrentBackoff
          /\ rows' = rows
          /\ seq' = seq]_vars

\* An empty-spool cycle run while the uploader was backed off.
C7_Witness ==
    /\ lastCycle = "noop"
    /\ rows = {}
    /\ attempt >= 2
    /\ CurrentBackoff >= 4

\* C8: the value upload_batch returns for an empty spool differs from the
\* value it returns for a failed delivery.
C8_NoOpDistinctFromFailure ==
    \A p, q \in returned :
        (p[1] = "noop" /\ q[1] = "failure") => p[2] # q[2]

Pos(id) == CHOOSE i \in 1..Len(insLog) : insLog[i][1] = id

\* C9: strict FIFO.  peek(n) returns min(n, count()) rows (none for n <= 0),
\* all of them stored rows, in ascending rowid order, every row left out
\* having a larger rowid than every row returned; ascending rowid order is
\* insertion order, and with nothing acked peek(N) after N enqueues returns
\* the enqueued samples in the order they were enqueued.
C9_StrictFifo ==
    peekFresh =>
        LET k == Len(peeked)
        IN  /\ k = IF peekArg <= 0 THEN 0
                   ELSE IF peekArg < Cardinality(rows) THEN peekArg
                   ELSE Cardinality(rows)
            /\ \A i \in 1..k : peeked[i] \in rows
            /\ \A i, j \in 1..k : i < j => peeked[i].rowid < peeked[j].rowid
            /\ \A r \in rows \ Range(peeked) :
                  \A i \in 1..k : peeked[i].rowid < r.rowid
            /\ \A i, j \in 1..k :
                  i < j => Pos(peeked[i].rowid) < Pos(peeked[j].rowid)
            /\ \A i \in 1..k :
                  Strip(peeked[i]) = insLog[Pos(peeked[i].rowid)][2]
            /\ (Cardinality(rows) = Len(insLog) /\ peekArg = Len(insLog)) =>
                  [i \in 1..k |-> Strip(peeked[i])]
                      = [i \in 1..Len(insLog) |-> insLog[i][2]]

\* peek(2) after the middle one of three samples was acked: it returns the
\* first and the third.
C9_Witness ==
    /\ peekFresh
    /\ peekArg = 2
    /\ Len(peeked) = 2
    /\ peeked[1].rowid = 1
    /\ peeked[2].rowid = 3
    /\ 2 \in acked

\* C10: peek(n) leaves the stored rows, count() and the next rowid as they
\* were, and a second peek(n) with no mutation in between returns what the
\* first returned.
C10_PeekSideEffectFree ==
    [][\A n \in PeekArgs :
          SpoolPeekCall(n) =>
             /\ rows' = rows
             /\ Count(rows') = Count(rows)
             /\ seq' = seq
             /\ NextRowid(rows', seq') = NextRowid(rows, seq)
             /\ (peekFresh /\ peekArg = n) => peeked' = peeked]_vars

\* The same peek(1) made twice in a row on a spool of at least two rows.
C10_Witness ==
    /\ peekRepeat
    /\ peekFresh
    /\ peekArg = 1
    /\ Len(peeked) = 1
    /\ Count(rows) >= 2

\* C11: rowids are never reused.  Every enqueue is given a rowid greater
\* than the rowid of every earlier enqueue, whatever was acked in between
\* and however often the spool was closed and reopened.
C11_RowidNeverReused ==
    \A i, j \in 1..Len(insLog) : i < j => insLog[i][1] < insLog[j][1]

\* The newest row was acked, the spool closed and reopened, and a sample
\* enqueued after that.
C11_Witness == reopenPhase = "enqueued_after" /\ Len(insLog) >= 2

\* C12: ack is idempotent.  Calling ack twice in a row with the same rowids
\* leaves the spool as one call does, and a further call changes nothing.
C12_AckIdempotent ==
    [][\A ids \in AckArgs :
         SpoolAckTwice(ids) =>
             /\ rows' = Ack(rows, ids)
             /\ rows' = {r \in rows : r.rowid \notin Range(ids)}
             /\ Ack(rows', ids) = rows'
             /\ seq' = seq]_vars

\* Stored rows were acked twice in a row and other rows remain.
C12_Witness == ackedTwice /\ rows # {} /\ ackedEnq # {}

\* C13: ack removes exactly the stored rows whose rowid it was given.  Rowids
\* that are not stored are ignored, an empty list changes nothing, and the
\* remaining rows keep their order.
C13_AckScoping ==
    [][\A ids \in AckArgs :
         SpoolAckCall(ids) =>
             /\ rows' = {r \in rows : r.rowid \notin Range(ids)}
             /\ (ids = <<>> => rows' = rows)
             /\ (Range(ids) \cap RowIds(rows) = {} => rows' = rows)
             /\ OrderByRowid(rows') =
                    SelectSeq(OrderByRowid(rows),
                              LAMBDA r : r.rowid \notin Range(ids))
             /\ seq' = seq]_vars

\* Of three samples only the second was acked: the first and the third
\* remain, in that order.
C13_Witness ==
    /\ acked = {2}
    /\ Len(insLog) = 3
    /\ RowidsOf(Peek(rows, Len(insLog))) = <<1, 3>>

\* C14: count() is the number of samples enqueued minus the number of
\* distinct enqueued samples that were acked.
C14_CountIsPending == Count(rows) = Len(insLog) - Cardinality(ackedEnq)

\* Some stored rows were acked, a rowid that was never stored was acked as
\* well, and rows remain.
C14_Witness ==
    /\ ackedEnq # {}
    /\ acked \ InsertedIds # {}
    /\ Count(rows) >= 1
    /\ Count(rows) < Len(insLog)

\* C15: durability.  After the spool was closed and reopened it holds exactly
\* the samples whose enqueue returned and that were not acked, unchanged and
\* in the order of their enqueue.
C15_Durability ==
    reopenPhase # "none" =>
        /\ RowIds(rows) = InsertedIds \ ackedEnq
        /\ \A r \in rows : Strip(r) = insLog[Pos(r.rowid)][2]
        /\ LET q == Peek(rows, Count(rows))
           IN  \A i, j \in 1..Len(q) :
                   i < j => Pos(q[i].rowid) < Pos(q[j].rowid)

\* The spool was reopened after an ack and holds the rows that were not
\* acked.
C15_Witness ==
    /\ reopenPhase = "reopened_after_ack"
    /\ Count(rows) >= 2
    /\ ackedEnq # {}

\* C16: a crash inside upload_batch loses nothing.  When the process dies
\* after upload_batch read a batch and before its ack committed (before the
\* response arrived, or after a 2xx response), every row of the batch is in
\* the spool after the restart, and the first upload_batch after the restart
\* sends all of them again; that upload_batch does take place.
C16_CrashRedelivery ==
    /\ [][/\ \A kind \in CrashKinds \ {"outside"} :
               Crash(kind) => Range(upl_rows) \subseteq rows'
          /\ (UploadBatchPeek /\ crashedBatch # <<>> /\ lastCycle = "none") =>
                 /\ upl_pc' = "post"
                 /\ Len(upl_rows') >= Len(crashedBatch)
                 /\ SubSeq(upl_rows', 1, Len(crashedBatch)) = crashedBatch
                 /\ \A i \in 1..Len(crashedBatch) :
                        wire'[i] = Strip(crashedBatch[i])]_vars
    /\ (crashedBatch # <<>> /\ lastCycle = "none")
           ~> (upl_pc = "post" /\ Range(crashedBatch) \subseteq Range(upl_rows))

\* The process died after a 2xx response for a batch of two and before the
\* ack; after the restart the two rows are being sent again.
C16_Witness ==
    /\ crashKind = "after_2xx"
    /\ Len(crashedBatch) = 2
    /\ upl_pc = "post"
    /\ crashedBatch = SubSeq(upl_rows, 1, 2)

\* The scheme of a URL: what precedes its first colon (nothing if it has no
\* colon).
SchemeOf(url) ==
    LET colons == {i \in 1..Len(url) : url[i] = ":"}
    IN  IF colons = {} THEN <<>>
        ELSE SubSeq(url, 1, (CHOOSE i \in colons : \A j \in colons : i <= j) - 1)
Https == <<"h", "t", "t", "p", "s">>

\* C17: HTTPS enforcement.  Constructing an Uploader with a URL whose scheme
\* is not https fails and no HTTP client exists afterwards; a URL that starts
\* with https:// is accepted; every request ever posted goes to an https URL.
C17_HttpsEnforced ==
    /\ ctor = "ValueError" => ~client /\ postedTo = {} /\ upl_pc = "idle"
    /\ (ctor # "pending" /\ SchemeOf(given_url) # Https) => ctor = "ValueError"
    /\ (ctor # "pending" /\ Len(given_url) >= 8
          /\ \A i \in 1..8 : given_url[i] = HttpsPrefix[i])
         => ctor = "built" /\ client
    /\ \A u \in postedTo : SchemeOf(u) = Https
    /\ ctor = "pending" => ~client /\ postedTo = {}

\* A construction with an http:// URL was refused.
C17_Witness ==
    /\ ctor = "ValueError"
    /\ SchemeOf(given_url) = <<"h", "t", "t", "p">>
    /\ ~client

\* C18: a transport failure never leaves upload_batch as an exception.  Every
\* upload_batch whose request met a network error, a timeout or a status
\* that is not 2xx returns False, and its attempt counter is one higher than
\* before.
C18_FailureContained ==
    [][(upl_pc = "post" /\ upl_pc' = "idle" /\ lastCycle' = "failure") =>
          /\ result' = "False"
          /\ attempt' = attempt + 1
          /\ \A p \in returned' : p[2] # "raised"]_vars

\* Three failed deliveries in a row, each returned as False.
C18_Witness ==
    /\ lastCycle = "failure"
    /\ failsSince = 3
    /\ result = "False"
    /\ Kinds(returned) = {"failure"}

\* C19: after an upload_batch that failed, _upload_loop waits for the larger
\* of the upload interval and the backoff that counts this failure.
C19_FailureDelay ==
    (loop_pc = "wait" /\ lastCycle = "failure") =>
        LET backoff == Min(Doubled(failsSince), max_backoff)
        IN  /\ delay = IF upload_interval_s >= backoff THEN upload_interval_s
                       ELSE backoff
            /\ delay >= upload_interval_s
            /\ delay >= CurrentBackoff

\* After five failures in a row the loop waits 32 s with an interval of 10 s.
C19_Witness ==
    /\ loop_pc = "wait"
    /\ lastCycle = "failure"
    /\ failsSince = 5
    /\ upload_interval_s = 10
    /\ delay = 32

\* C20: after an upload_batch that found the spool empty, _upload_loop waits
\* for the upload interval, whatever the interval and the backoff state.
C20_NoOpDelay ==
    (loop_pc = "wait" /\ lastCycle = "noop") => delay = upload_interval_s

\* C21: whatever the cycle was (delivered, empty spool, failed delivery, an
\* exception out of upload_batch) and whatever the backoff, the wait
\* _upload_loop chose is at least the configured upload interval.
C21_CadenceFloor ==
    (loop_pc \in {"health", "wait"}) => delay >= upload_interval_s

\* The wait after a storage error in a backed-off uploader: four failed
\* deliveries, then a peek that raised; the loop waits 16 s, not 10 s.
C21_Witness ==
    /\ loop_pc = "wait"
    /\ lastCycle = "error"
    /\ result = "raised"
    /\ attempt = 4
    /\ upload_interval_s = 10
    /\ delay = 16
    /\ {"success", "noop", "failure", "error"} \subseteq Kinds(returned)

\* C29: health reporting is read-only.  Reading current_backoff for the
\* delay and running write_health_file leave the spool (as seen and as
\* committed) and the backoff state as they were; whatever happens inside
\* write_health_file, the delay chosen before it stands and the loop goes on
\* to its wait.
C29_HealthReadOnly ==
    [][/\ (loop_pc = "eval" /\ loop_pc' = "health") =>
            /\ <<rows, seq, durable>>' = <<rows, seq, durable>>
            /\ <<attempt, max_backoff>>' = <<attempt, max_backoff>>
       /\ (loop_pc = "health" /\ loop_pc' # "health") =>
            /\ <<rows, seq, durable>>' = <<rows, seq, durable>>
            /\ <<attempt, max_backoff>>' = <<attempt, max_backoff>>
            /\ delay' = delay
            /\ loop_pc' = "wait"]_vars

\* Two failed deliveries, the health file could not be written either time
\* (it still does not exist): the loop is in its second wait, both samples
\* pending, the backoff at 4 s, the delay the interval of 10 s.
C29_Witness ==
    /\ loop_pc = "wait"
    /\ health_file = <<>>
    /\ failsSince = 2
    /\ attempt = 2
    /\ Cardinality(rows) = 2
    /\ upload_interval_s = 10
    /\ delay = 10

\* C22: once shutdown_event is set both loops end, without any wait having
\* to run out; the event stays set, an iteration begins only while it is not
\* set (so none begins after the loop saw it, and none at all when it was set
\* from the start), and a loop that has ended stays ended.
C22_ShutdownTerminates ==
    /\ shutdown_event ~> (poll_pc = "exited" /\ loop_pc = "exited")
    /\ [][/\ shutdown_event => shutdown_event'
          /\ (pollIters' # pollIters \/ upIters' # upIters) => ~shutdown_event
          /\ poll_pc = "exited" => poll_pc' = "exited"
          /\ loop_pc = "exited" => loop_pc' = "exited"
         ]_<<shutdown_event, poll_pc, loop_pc, pollIters, upIters>>

\* Both loops were in their wait after one iteration when the signal came;
\* the event ended both waits and both loops have ended.
C22_Witness ==
    /\ shutdown_event
    /\ poll_pc = "exited"
    /\ loop_pc = "exited"
    /\ wakes = {"poll", "upload"}
    /\ pollIters = 1
    /\ upIters = 1

\* C23: an exception in the body of a loop ends the iteration, not the loop.
\* In _poll_loop a poll or normalize that raised and an enqueue that raised
\* lead to the wait at the end of the iteration; in _upload_loop an
\* upload_batch left by a storage error is evaluated like a failed cycle.
\* No loop is ever dead, and a loop has ended only if the event is set.
C23_OnlyShutdownEndsLoops ==
    /\ [](/\ poll_pc \in {"top", "body", "enqueue", "wait", "exited"}
          /\ loop_pc \in {"top", "idle", "call", "eval", "health", "wait",
                          "exited"}
          /\ (poll_pc = "exited" \/ loop_pc = "exited") => shutdown_event)
    /\ [][/\ (\/ PollMeasure("raises")
              \/ \E now \in Clock : PollEnqueue(FALSE, now)) =>
                 poll_pc' = "wait"
          /\ (\E where \in StorageFaults : LoopRaises(where)) =>
                 (loop_pc' = "eval" /\ result' = "raised")
          /\ (loop_pc = "eval" /\ loop_pc' # "eval") => loop_pc' = "health"
          /\ (loop_pc = "health" /\ loop_pc' # "health") => loop_pc' = "wait"
         ]_<<poll_pc, loop_pc>>

\* In its first iteration the enqueue of the poll loop raised and the
\* upload_batch of the upload loop was left by an exception; no signal has
\* come; the second iteration of the poll loop has stored its sample and
\* the second iteration of the upload loop is sending it.
C23_Witness ==
    /\ ~shutdown_event
    /\ taskCalls = {<<"poll", "enqueue", FALSE>>, <<"poll", "enqueue", TRUE>>}
    /\ pollIters = 2
    /\ poll_pc = "wait"
    /\ Cardinality(rows) = 1
    /\ <<"error", "raised">> \in returned
    /\ upIters = 2
    /\ loop_pc = "call"

\* C24: the steps main() takes after the signal are, in this order, the join
\* of the poll thread, the join of the upload thread, one call of
\* upload_batch by the flush, its end, and spool.close().  None is taken
\* before the signal, the flush is called whether the joins saw the threads
\* end or timed out, and the spool is closed exactly when all five are done.
ShutdownOrder == <<"join_poll", "join_upload", "flush", "flush", "close">>

C24_ShutdownOrder ==
    /\ Len(mainLog) <= Len(ShutdownOrder)
    /\ \A i \in 1..Len(mainLog) : mainLog[i][1] = ShutdownOrder[i]
    /\ Len(mainLog) >= 3 => mainLog[3][2] = "call"
    /\ Len(mainLog) >= 4 => mainLog[4][2] \in {"True", "False", "raised"}
    /\ mainLog # <<>> => shutdown_event
    /\ closed <=> Len(mainLog) = Len(ShutdownOrder)
    /\ fl_pc = "post" => Len(mainLog) = 3
    /\ fl_pc = "done" <=> Len(mainLog) >= 4

\* Both joins timed out with the upload thread still inside its own
\* upload_batch; the flush delivered the pending sample and the spool was
\* closed after it.
C24_Witness ==
    /\ mainLog = <<<<"join_poll", "timeout">>, <<"join_upload", "timeout">>,
                   <<"flush", "call">>, <<"flush", "True">>,
                   <<"close", "done">>>>
    /\ closed
    /\ loop_pc = "call"
    /\ poll_pc # "exited"

\* C25: however the upload_batch of the flush ends (delivered, nothing to
\* send, failed delivery, an exception), _flush_uploads returns and main()
\* goes on to spool.close(); main() is never left by an exception.
C25_FlushNeverBlocks ==
    /\ [](/\ main_pc \in {"running", "join_poll", "join_upload", "flush",
                          "close", "done"}
          /\ flushResult # "none" => main_pc \in {"close", "done"}
          /\ main_pc = "done" <=> closed)
    /\ [][/\ (fl_pc # "done" /\ fl_pc' = "done") =>
                 (main_pc' = "close" /\ flushResult' # "none")
          /\ main_pc = "close" => main_pc' \in {"close", "done"}
         ]_<<main_pc, fl_pc, flushResult>>

\* The upload_batch of the flush was left by an exception after its request
\* had been answered 2xx; the spool has been closed all the same.
C25_Witness ==
    /\ flushResult = "raised"
    /\ fl_rowids # <<>>
    /\ closed
    /\ main_pc = "done"

\* C30: the spool main() built serves the two threads: no enqueue of the poll
\* thread raises, no upload_batch of the upload thread is left by the
\* exception of a spool call, and the count() of the health report gives a
\* depth.
C30_UsableFromTasks ==
    /\ \A c \in taskCalls : c[1] = "poll" => c[3]
    /\ <<"error", "raised">> \notin returned
    /\ \A i \in 1..Len(health_file) : health_file[i].spool_depth_known

\* C27: every sample the poll loop built from a reading of the meter is in
\* the hands of the loop on its way to enqueue, pending in the spool, or was
\* carried by a request answered 2xx.
C27_NoSampleLost ==
    \A s \in readings :
        \/ poll_pc = "enqueue" /\ poll_sample = <<s>>
        \/ \E r \in rows : Strip(r) = s
        \/ \E i \in 1..Len(insLog) :
              insLog[i][2] = s /\ insLog[i][1] \in confirmed

C28_ServerExactlyOnce ==
    /\ [](\A i, j \in 1..Len(store) :
             KeyOf(store[i]) = KeyOf(store[j]) => i = j)
    /\ [][(srv_reply = <<>> /\ srv_reply' # <<>>) =>
             /\ srv_reply'[1].status = 200
             /\ srv_reply'[1].inserted = Len(store') - Len(store)
             /\ KeysOf(wire) \subseteq KeysOf(store) =>
                   (store' = store /\ srv_reply'[1].inserted = 0)
             /\ \A i \in 1..Len(store) : store'[i] = store[i]
             /\ KeysOf(wire) \subseteq KeysOf(store')
          ]_<<store, srv_reply>>

\* The process died after the 2xx for a batch of two samples and before its
\* ack; after the restart the same batch was delivered again, the server
\* added nothing and answered 200 with inserted = 0, and the edge acked.
C28_Witness ==
    /\ crashKind = "after_2xx"
    /\ Len(crashedBatch) = 2
    /\ Len(store) = 2
    /\ srv_reply = <<[status |-> 200, inserted |-> 0]>>
    /\ lastCycle = "success"
    /\ acked = {1, 2}
    /\ rows = {}

\* C31: no use after close.  Once main() has called spool.close(), neither
\* the poll thread nor the upload thread invokes a spool method: no step
\* carries _poll_loop through its spool.enqueue, nor _upload_loop through the
\* peek of its upload_batch or the count of its health report.
C31_NoUseAfterClose ==
    [][closed =>
          /\ ~(poll_pc = "enqueue" /\ poll_pc' # "enqueue")
          /\ ~(loop_pc \in {"idle", "health"} /\ loop_pc' # loop_pc)
      ]_<<poll_pc, loop_pc>>

Oldest(t, i) ==
    CHOOSE r \in t : Cardinality({q \in t : q.rowid < r.rowid}) = i - 1

\* C34: batch content.  An upload_batch that finds the spool non-empty issues
\* one request and ends with the answer to it; the request carries between
\* 1 and batch_size samples, namely those of the rows with the lowest rowids
\* in the spool at the peek, in ascending order.  After a failed attempt the
\* next batch starts with the same oldest row again.
C34_BatchContent ==
    [][/\ (UploadBatchPeek /\ rows # {}) =>
             /\ upl_pc' = "post"
             /\ Len(wire') >= 1
             /\ Len(wire') <= batch_size
             /\ Len(wire') = Min(batch_size, Cardinality(rows))
             /\ \A i \in 1..Len(wire') :
                    /\ upl_rows'[i] = Oldest(rows, i)
                    /\ wire'[i] = Strip(Oldest(rows, i))
             /\ \A i \in 1..(Len(wire') - 1) :
                    upl_rows'[i].rowid < upl_rows'[i + 1].rowid
       /\ (UploadBatchPeek /\ lastCycle = "failure") =>
             /\ upl_pc' = "post"
             /\ upl_rows'[1] = upl_rows[1]
             /\ wire'[1] = Strip(upl_rows[1])
       /\ \A o \in TransportOutcomes :
             UploadBatchResponse(o) => (upl_pc' = "idle" /\ wire' = <<>>)
      ]_vars

\* A batch of two out of three rows failed, a newer sample was enqueued
\* meanwhile, and the next request carries the same two oldest rows.
C34_Witness ==
    /\ batch_size = 2
    /\ upl_pc = "post"
    /\ Cardinality(rows) = 3
    /\ RowidsOf(upl_rows) = <<1, 2>>
    /\ Len(wire) = 2
    /\ <<"failure", ReturnOnFailure>> \in returned
    /\ acked = {}

\* The fields of a sample in the ingest schema.
DomainFields ==
    {"device_id", "ts", "power_w", "import_power_w", "energy_import_kwh",
     "energy_export_kwh"}

\* The sample that was enqueued under rowid `id`.
EnqueuedAs(id) ==
    LET i == CHOOSE j \in 1..Len(insLog) : insLog[j][1] = id
    IN  insLog[i][2]

\* C35: field stripping.  Every sample of a request that upload_batch sends
\* has exactly the six domain fields, with the values that were enqueued
\* under its row, and so neither rowid nor created_at; building the request
\* changes neither the table nor the rows the call holds, which keep their
\* rowid and created_at.
C35_FieldStripping ==
    [][(UploadBatchPeek /\ rows # {}) =>
          /\ rows' = rows
          /\ durable' = durable
          /\ Len(wire') = Len(upl_rows')
          /\ \A i \in 1..Len(wire') :
                /\ DOMAIN wire'[i] = DomainFields
                /\ wire'[i] = EnqueuedAs(upl_rows'[i].rowid)
                /\ upl_rows'[i] \in rows'
                /\ {"rowid", "created_at"} \subseteq DOMAIN upl_rows'[i]
      ]_vars

\* A request in flight with two samples of different kinds, one of them
\* without the optional energy fields; both rows are still in the table.
C35_Witness ==
    /\ upl_pc = "post"
    /\ Len(wire) = 2
    /\ wire[1] = Sample(-200, NULL, NULL)
    /\ wire[2] = Sample(1500, "123.456", "78.9")
    /\ Range(upl_rows) \subseteq rows

\* C36: a storage error inside upload_batch.  When the peek raises, or the
\* ack after a 2xx response, the exception leaves upload_batch: _attempt is
\* neither incremented nor reset, the spool keeps every row, and nothing is
\* acked.  _upload_loop takes the cycle for an unsuccessful one (failure
\* recorded, delay of the failure branch) and goes on to its wait and to the
\* next iteration.
C36_StorageErrorContained ==
    [][/\ \A where \in StorageFaults :
             LoopRaises(where) =>
                /\ result' = "raised"
                /\ attempt' = attempt
                /\ <<rows, seq, durable>>' = <<rows, seq, durable>>
                /\ acked' = acked
                /\ upl_pc' = "idle"
                /\ loop_pc' = "eval"
       /\ (lastCycle = "error" /\ loop_pc = "eval" /\ loop_pc' # "eval") =>
             /\ loop_pc' = "health"
             /\ last_upload_ok' = "False"
             /\ delay' = ChooseDelay(FALSE)
             /\ attempt' = attempt
             /\ rows' = rows
       /\ (lastCycle = "error" /\ loop_pc = "health" /\ loop_pc' # "health") =>
             loop_pc' = "wait"
       /\ (lastCycle = "error" /\ loop_pc = "wait" /\ loop_pc' # "wait") =>
             loop_pc' = "idle"
      ]_vars

\* After two failed deliveries a third request was answered 2xx and the ack
\* raised: the backoff state still counts two failures, both rows are in the
\* spool, nothing was acked, and the loop is in the wait that follows a cycle
\* ended by a storage error.
C36_Witness ==
    /\ attempt = 2
    /\ any2xx
    /\ confirmed = {1, 2}
    /\ acked = {}
    /\ Cardinality(rows) = 2
    /\ lastCycle = "error"
    /\ upl_pc = "idle"
    /\ loop_pc = "wait"
    /\ enqDuring = {}
    /\ Len(insLog) = 2

\* C37: a cycle that found the spool empty is not recorded as a failed
\* upload.  The health state says the last upload failed only if some
\* upload_batch made a delivery attempt that failed, and says it succeeded
\* only if some batch was delivered and acked.
C37_EmptyCycleNotFailure ==
    /\ last_upload_ok = "False" => "failure" \in Kinds(returned)
    /\ last_upload_ok = "True" => "success" \in Kinds(returned)

\* C38: rejection is all-or-nothing.  A request in which some sample names a
\* device other than the authenticated one is answered 403 and leaves the
\* server store as it was, matching samples included; a request all of whose
\* samples match is answered 200 and its new keys are in the store.
C38_RejectionAllOrNothing ==
    [][\A device_id \in AuthDevices :
          ApiIngest(device_id) =>
             IF \E i \in 1..Len(wire) : wire[i].device_id # device_id
             THEN /\ store' = store
                  /\ srv_reply' = <<[status |-> 403]>>
             ELSE /\ srv_reply'[1].status = 200
                  /\ KeysOf(store') = KeysOf(store) \cup KeysOf(wire)
      ]_srvVars

\* A request whose first sample matches the token and whose second names
\* another device was answered 403; the store holds what an earlier request
\* put there and neither sample of this one.
C38_Witness ==
    /\ Len(wire) = 2
    /\ wire[1].device_id = "hw-p1-001"
    /\ wire[2].device_id = "hw-p1-002"
    /\ srv_reply = <<[status |-> 403]>>
    /\ store # <<>>
    /\ KeysOf(wire) \cap KeysOf(store) = {}

\* C39: realtime cache coherence.  A realtime read answers with a sample no
\* older than the newest sample committed by any ingest that had completed
\* its cache invalidation when the read began.
C39_RealtimeFresh == rt_pc = "done" => rt_row[1].ts >= rt_floor
====
